---- MODULE Spec2Model ----
(***************************************************************************)
(* The Amazing3.1 grid engine (src/amazing31_python.py) driven tick by     *)
(* tick against a venue that implements the Broker protocol the way        *)
(* SimBroker (src/backtest_usdchf.py) does, and that may also reject a     *)
(* mutating call, as the protocol's Optional[int] / bool results allow.    *)
(*                                                                         *)
(* Units.  Prices are whole numbers of points (point() = 1), so that       *)
(* round(value, digits()) leaves every price it is applied to unchanged.   *)
(* Lots are whole numbers of 1/1000 lot.  Money (profits and the money     *)
(* thresholds of the configuration) is a whole number of account units.    *)
(* Time is in seconds.                                                     *)
(***************************************************************************)
EXTENDS Integers, Sequences, FiniteSets, TLC

VARIABLES
    cfg,         \* Config, after __post_init__
    venue,       \* what this venue's market can do on a tick (fixed per run)
    orders,      \* SimBroker._orders: the venue's list, in list order
    nextTicket,  \* SimBroker._next_ticket
    state,       \* Amazing31.state
    now,         \* timestamp of the latest tick
    ev           \* what the latest step did (the tick's inputs, calls, outcome)

vars == <<cfg, venue, orders, nextTicket, state, now, ev>>

(***************************************************************************)
(* Bounds of the model.                                                    *)
(***************************************************************************)
MaxNow == 3         \* last timestamp of a run
BarSeconds == 2     \* length of a bar

(***************************************************************************)
(* OrderType and OpenMode.                                                 *)
(***************************************************************************)
BUY == 0
SELL == 1
BUYSTOP == 4
SELLSTOP == 5

BAR == 1
SLEEP == 2
ALWAYS == 3

LotScale == 1000    \* model units per lot
Rounds == 10        \* lizong_7: range(10)
AnyType == -100     \* lizong_10: order_type != -100

(***************************************************************************)
(* Sequence helpers.                                                       *)
(***************************************************************************)
RECURSIVE SumSeq(_)
SumSeq(s) == IF s = << >> THEN 0 ELSE Head(s) + SumSeq(Tail(s))

Range(s) == {s[i] : i \in 1..Len(s)}

MaxOf(S, default) == IF S = {} THEN default ELSE CHOOSE x \in S : \A y \in S : y <= x
MinOf(S, default) == IF S = {} THEN default ELSE CHOOSE x \in S : \A y \in S : x <= y

\* the lots and the profits of a list of orders, in list order
LotsOf(s) == [i \in 1..Len(s) |-> s[i].lots]
ProfitsOf(s) == [i \in 1..Len(s) |-> s[i].profit]

RECURSIVE Pow(_, _)
Pow(b, n) == IF n = 0 THEN 1 ELSE b * Pow(b, n - 1)

\* vals.sort(reverse=True); vals[:top_n]
RECURSIVE SortDesc(_)
SortDesc(s) ==
    IF s = << >> THEN << >>
    ELSE LET m == MaxOf(Range(s), 0)
             i == CHOOSE k \in 1..Len(s) : s[k] = m /\ \A j \in 1..(k - 1) : s[j] # m
         IN  <<m>> \o SortDesc(SubSeq(s, 1, i - 1) \o SubSeq(s, i + 1, Len(s)))

Take(s, n) == SubSeq(s, 1, IF n < Len(s) THEN n ELSE Len(s))

(***************************************************************************)
(* Config.                                                                 *)
(***************************************************************************)
\* _clean_time that keeps "24:00"
CleanTimeKept(t) == t

\* Config._clean_time, on a time of day given as its ":"-separated numbers
CleanTime(t) == IF t = <<24, 0>> THEN <<23, 59, 59>> ELSE t

Clamp(x, lo, hi) == IF x < lo THEN lo ELSE IF x > hi THEN hi ELSE x

\* Amazing31._time_to_seconds
TimeToSeconds(t) ==
    IF Len(t) = 2 THEN Clamp(t[1], 0, 23) * 3600 + Clamp(t[2], 0, 59) * 60
    ELSE IF Len(t) = 3
         THEN Clamp(t[1], 0, 23) * 3600 + Clamp(t[2], 0, 59) * 60 + Clamp(t[3], 0, 59)
         ELSE 0

\* the coercion of a loss threshold that flips every sign
NegateAlways(x) == -x

NegateIfPositive(x) == IF x > 0 THEN -x ELSE x

\* Config.__post_init__
PostInit(c) ==
    [c EXCEPT !.max_loss_close_all = NegateIfPositive(c.max_loss_close_all),
              !.max_loss = NegateIfPositive(c.max_loss),
              !.stop_loss = NegateIfPositive(c.stop_loss),
              !.money = NegateIfPositive(c.money),
              !.ea_start_time = CleanTime(c.ea_start_time),
              !.ea_stop_time = CleanTime(c.ea_stop_time),
              !.limit_start_time = CleanTime(c.limit_start_time),
              !.limit_stop_time = CleanTime(c.limit_stop_time)]

\* The dataclass defaults of Config, in the model's units and on its price
\* grid (steps of a few points instead of tens of points).
DefaultConfig ==
    [symbol |-> "USDCHF", magic |-> 9453, totals |-> 50, max_spread |-> 2,
     leverage_min |-> 100,
     close_buy_sell |-> TRUE, homeopathy_close_all |-> TRUE, homeopathy |-> FALSE,
     over |-> FALSE, next_time |-> 0,
     money |-> 0, first_step |-> 1, min_distance |-> 2, two_min_distance |-> 2,
     step_trail_orders |-> 0, step |-> 1, two_step |-> 1,
     open_mode |-> ALWAYS, sleep_seconds |-> 30,
     max_loss |-> -100000, max_loss_close_all |-> -50,
     lot |-> 10, max_lot |-> 10000, plus_lot |-> 0, k_lot |-> <<13, 10>>,
     digits_lot |-> 2,
     close_all |-> 1, profit_by_count |-> TRUE, stop_profit |-> 2, stop_loss |-> 0,
     on_top_not_buy_add |-> 0, on_under_not_sell_add |-> 0,
     ea_start_time |-> <<0, 0>>, ea_stop_time |-> <<24, 0>>,
     limit_start_time |-> <<0, 0>>, limit_stop_time |-> <<24, 0>>,
     check_margin_for_add_orders |-> FALSE]

(***************************************************************************)
(* The venue within one tick.  m is the venue as the engine's calls leave  *)
(* it: its order list, the next ticket, how many further mutating calls it *)
(* rejects (-1: all of them), the calls received so far on this tick and   *)
(* the seconds the engine has slept.                                       *)
(***************************************************************************)
Call(op, ticket, type, lots, price, comment) ==
    [op |-> op, ticket |-> ticket, type |-> type, lots |-> lots, price |-> price,
     comment |-> comment, ok |-> TRUE, at |-> 0]

\* the venue's answer, logged with the seconds the engine had slept by then
Answer(m, call, ok) ==
    [m EXCEPT !.calls = Append(@, [call EXCEPT !.ok = ok, !.at = m.sleeps])]

\* Broker protocol: a mutating call may come back None / False
Reject(m, call) ==
    Answer([m EXCEPT !.rej = IF @ > 0 THEN @ - 1 ELSE @], call, FALSE)

LastOk(m) == m.calls[Len(m.calls)].ok

HasTicket(book, ticket) == \E i \in 1..Len(book) : book[i].ticket = ticket

\* SimBroker._find_order
FindOrder(book, ticket) ==
    book[CHOOSE i \in 1..Len(book) :
            book[i].ticket = ticket /\ \A j \in 1..(i - 1) : book[j].ticket # ticket]

Without(book, ticket) == SelectSeq(book, LAMBDA o : o.ticket # ticket)

\* send_pending that does not advance the ticket counter
SendPendingSameTicket(m, order_type, lots, price, comment) ==
    IF m.rej # 0
    THEN Reject(m, Call("send", m.nextTicket, order_type, lots, price, comment))
    ELSE Answer([m EXCEPT !.orders =
                    Append(@, [ticket |-> m.nextTicket, symbol |-> m.symbol,
                               magic |-> 9453, type |-> order_type, lots |-> lots,
                               open_price |-> price, profit |-> 0, swap |-> 0,
                               commission |-> 0, comment |-> comment,
                               open_time |-> m.bar])],
                Call("send", m.nextTicket, order_type, lots, price, comment), TRUE)

\* SimBroker.send_pending
SendPending(m, order_type, lots, price, comment) ==
    LET call == Call("send", m.nextTicket, order_type, lots, price, comment)
        o == [ticket |-> m.nextTicket, symbol |-> m.symbol, magic |-> 9453,
              type |-> order_type, lots |-> lots, open_price |-> price,
              profit |-> 0, swap |-> 0, commission |-> 0, comment |-> comment,
              open_time |-> m.bar]
    IN  IF m.rej # 0 THEN Reject(m, call)
        ELSE Answer([m EXCEPT !.orders = Append(@, o), !.nextTicket = @ + 1], call, TRUE)

\* SimBroker.modify_order
ModifyOrder(m, ticket, new_price) ==
    LET call == Call("modify", ticket, AnyType, 0, new_price, "")
    IN  IF m.rej # 0 \/ ticket \in m.stuck THEN Reject(m, call)
        ELSE IF ~HasTicket(m.orders, ticket)
                \/ FindOrder(m.orders, ticket).type \notin {BUYSTOP, SELLSTOP}
             THEN Answer(m, call, FALSE)
             ELSE Answer([m EXCEPT !.orders =
                             [i \in 1..Len(@) |->
                                 IF @[i].ticket = ticket
                                 THEN [@[i] EXCEPT !.open_price = new_price]
                                 ELSE @[i]]],
                         call, TRUE)

\* SimBroker.delete_order
DeleteOrder(m, ticket) ==
    LET call == Call("delete", ticket, AnyType, 0, 0, "")
    IN  IF m.rej # 0 \/ ticket \in m.stuck THEN Reject(m, call)
        ELSE Answer([m EXCEPT !.orders = Without(@, ticket)], call,
                    HasTicket(m.orders, ticket))

\* SimBroker.close_order (a pending order is deleted)
CloseOrder(m, ticket) ==
    LET call == Call("close", ticket, AnyType, 0, 0, "")
    IN  IF m.rej # 0 \/ ticket \in m.stuck THEN Reject(m, call)
        ELSE Answer([m EXCEPT !.orders = Without(@, ticket)], call,
                    HasTicket(m.orders, ticket))

(***************************************************************************)
(* The engine's helpers.                                                   *)
(***************************************************************************)
\* Order.total_profit
TotalProfit(o) == o.profit + o.swap + o.commission

\* _orders that does not filter: every order the venue lists
OrdersOfAnyOwner(book) == book

\* Amazing31._orders
Orders(book) == SelectSeq(book, LAMBDA o : o.symbol = cfg.symbol /\ o.magic = cfg.magic)

OfType(book, t) == SelectSeq(book, LAMBDA o : o.type = t)

\* one more call of _orders in the tick: broker.get_orders() is asked again
Read(m) == [m EXCEPT !.reads = @ + 1]

\* Amazing31.lizong_10
Lizong10(book, order_type, sign_mode, top_n) ==
    LET pool == SelectSeq(Orders(book),
                          LAMBDA o : order_type = AnyType \/ o.type = order_type)
        kept == SelectSeq(pool,
                          LAMBDA o : \/ sign_mode = 1 /\ o.profit >= 0
                                     \/ sign_mode = 2 /\ o.profit < 0)
        vals == [i \in 1..Len(kept) |->
                    IF sign_mode = 1 THEN kept[i].profit ELSE -kept[i].profit]
    IN  SumSeq(Take(SortDesc(vals), top_n))

\* pool.sort(key=profit, reverse=(mode == 1)); pool[0] -- the sort is stable
Lizong9Target(pool, mode) ==
    LET ps == {pool[i].profit : i \in 1..Len(pool)}
        best == IF mode = 1 THEN MaxOf(ps, 0) ELSE MinOf(ps, 0)
    IN  pool[CHOOSE i \in 1..Len(pool) :
                pool[i].profit = best /\ \A j \in 1..(i - 1) : pool[j].profit # best]

RECURSIVE Lizong9(_, _, _, _)

\* a pass of lizong_9 that goes on to the next order after a rejected close
Lizong9PassRetrying(m, order_type, count, mode) ==
         LET pool == OfType(Orders(m.orders), order_type)
         IN  IF pool = << >> THEN m
             ELSE LET target == Lizong9Target(pool, mode)
                      tried == CloseOrder(m, target.ticket)
                  IN  IF (mode = 1) = (target.profit >= 0)
                      THEN Lizong9(tried, order_type, count - 1, mode)
                      ELSE Lizong9(m, order_type, count - 1, mode)

\* one pass of the loop of lizong_9, m having answered self._orders() of line 195
Lizong9Pass(m, order_type, count, mode) ==
         LET pool == OfType(Orders(m.orders), order_type)
         IN  IF pool = << >> THEN m
             ELSE LET target == Lizong9Target(pool, mode)
                      tried == CloseOrder(m, target.ticket)
                  IN  IF mode = 1 /\ target.profit >= 0
                      THEN IF LastOk(tried)
                           THEN Lizong9(tried, order_type, count - 1, mode)
                           ELSE tried
                      ELSE IF mode = 1 /\ target.profit < 0
                      THEN Lizong9(m, order_type, count - 1, mode)
                      ELSE IF mode = 2 /\ target.profit < 0
                      THEN IF LastOk(tried)
                           THEN Lizong9(tried, order_type, count - 1, mode)
                           ELSE tried
                      ELSE IF mode = 2 /\ target.profit >= 0
                      THEN Lizong9(m, order_type, count - 1, mode)
                      ELSE m

\* Amazing31.lizong_9
Lizong9(m, order_type, count, mode) ==
    IF count <= 0 THEN m ELSE Lizong9Pass(Read(m), order_type, count, mode)

\* one round of lizong_7: for o in self._orders()
RECURSIVE Lizong7Round(_, _, _, _)
Lizong7Round(m, todo, side, remain) ==
    IF todo = << >> THEN [m |-> m, remain |-> remain]
    ELSE LET o == Head(todo)
             hit == \/ o.type \in {BUY, BUYSTOP} /\ side \in {1, 0}
                    \/ o.type \in {SELL, SELLSTOP} /\ side \in {-1, 0}
             tried == IF o.type \in {BUY, SELL} THEN CloseOrder(m, o.ticket)
                      ELSE DeleteOrder(m, o.ticket)
         IN  IF hit
             THEN Lizong7Round(tried, Tail(todo), side,
                               IF LastOk(tried) THEN remain ELSE remain + 1)
             ELSE Lizong7Round(m, Tail(todo), side, remain)

\* Amazing31.lizong_7, from round number `round` on
RECURSIVE Lizong7From(_, _, _)
Lizong7From(m, side, round) ==
    IF round > Rounds
    THEN [m EXCEPT !.l7 = [ran |-> TRUE, ok |-> FALSE, rounds |-> round - 1, side |-> side]]
    ELSE LET r == Lizong7Round(Read(m), Orders(m.orders), side, 0)
         IN  IF r.remain = 0
             THEN [r.m EXCEPT !.l7 = [ran |-> TRUE, ok |-> TRUE, rounds |-> round,
                                      side |-> side]]
             ELSE Lizong7From([r.m EXCEPT !.sleeps = @ + 1], side, round + 1)

\* lizong_7 with one round fewer
Lizong7NineRounds(m, side) == Lizong7From(m, side, 2)

\* Amazing31.lizong_7
Lizong7(m, side) == Lizong7From(m, side, 1)

\* Amazing31._n: round(value, digits()) of a whole number of points
N(value) == value

\* Amazing31._in_time_window
InTimeWindow(now_ts, start, stop) ==
    LET cur == now_ts % 86400
        start_s == TimeToSeconds(start)
        stop_s == TimeToSeconds(stop)
    IN  IF start_s <= stop_s THEN start_s <= cur /\ cur <= stop_s
        ELSE cur >= start_s \/ cur <= stop_s

\* Amazing31._count_ss
CountSS(side_orders) == Len(SelectSeq(side_orders, LAMBDA o : o.comment = "SS"))

\* Amazing31._latest_open_time
LatestOpenTime(side_orders) ==
    IF side_orders = << >> THEN 0
    ELSE LET top == MaxOf({side_orders[i].ticket : i \in 1..Len(side_orders)}, -1)
         IN  FindOrder(side_orders, top).open_time

\* round(x, ndigits) of a / b, in units of 1 / unit: to the nearest, ties to even
RoundDiv(a, b) ==
    LET f == a \div b
        r == a - f * b
    IN  IF 2 * r < b THEN f
        ELSE IF 2 * r > b THEN f + 1
        ELSE IF f % 2 = 0 THEN f ELSE f + 1

\* _calc_lot, line 448: lot * k_lot ^ side_count + side_count * plus_lot, as a
\* fraction over den = (denominator of k_lot) ^ side_count
LotDen(side_count) == IF side_count = 0 THEN 1 ELSE Pow(cfg.k_lot[2], side_count)

\* LotRaw with plus_lot taken off instead of added
LotRawLessPlus(side_count, den) ==
    IF side_count = 0 THEN cfg.lot
    ELSE cfg.lot * Pow(cfg.k_lot[1], side_count) - side_count * cfg.plus_lot * den

LotRaw(side_count, den) ==
    IF side_count = 0 THEN cfg.lot
    ELSE cfg.lot * Pow(cfg.k_lot[1], side_count) + side_count * cfg.plus_lot * den

\* min(x, self.cfg.max_lot), line 449
LotCapped(x, den) == IF x <= cfg.max_lot * den THEN <<x, den>> ELSE <<cfg.max_lot, 1>>

\* round(..., self.cfg.digits_lot), line 449; unit is one step of digits_lot
LotRounded(capped, unit) == RoundDiv(capped[1], capped[2] * unit) * unit

\* Amazing31._calc_lot
CalcLot(side_count) ==
    LotRounded(LotCapped(LotRaw(side_count, LotDen(side_count)), LotDen(side_count)),
               LotScale \div Pow(10, cfg.digits_lot))

\* Amazing31._can_afford
CanAfford(lots, q) ==
    IF ~cfg.check_margin_for_add_orders THEN TRUE
    ELSE IF q.margin_per_lot <= 0 THEN TRUE
    ELSE lots * 2 * q.margin_per_lot < q.free_margin * LotScale

\* on_tick, lines 274-293: the order view and its aggregates
Aggregates(book) ==
    LET mine == Orders(book)
        buys == OfType(mine, BUY)
        sells == OfType(mine, SELL)
        buystops == OfType(mine, BUYSTOP)
        sellstops == OfType(mine, SELLSTOP)
        buy_profit == SumSeq([i \in 1..Len(buys) |-> TotalProfit(buys[i])])
        sell_profit == SumSeq([i \in 1..Len(sells) |-> TotalProfit(sells[i])])
        buy_ss_count == CountSS(buys)
        sell_ss_count == CountSS(sells)
    IN  [buys |-> buys, sells |-> sells, buystops |-> buystops, sellstops |-> sellstops,
         buy_profit |-> buy_profit, sell_profit |-> sell_profit,
         total_profit |-> buy_profit + sell_profit,
         buy_lots |-> SumSeq(LotsOf(buys)),
         sell_lots |-> SumSeq(LotsOf(sells)),
         buy_high |-> MaxOf({o.open_price : o \in Range(buys \o buystops)}, 0),
         buy_low |-> MinOf({o.open_price : o \in Range(buys)}, 0),
         sell_low |-> MinOf({o.open_price : o \in Range(sells \o sellstops)}, 0),
         sell_high |-> MaxOf({o.open_price : o \in Range(sells)}, 0),
         buy_ss_count |-> buy_ss_count, sell_ss_count |-> sell_ss_count,
         sell_ss_when_no_buy_ss |-> IF buy_ss_count < 1 THEN sell_ss_count ELSE 0]

\* CanOpen without the pause
CanOpenWhilePaused(a, q, st, now_ts) ==
    LET inWindow == InTimeWindow(now_ts, cfg.ea_start_time, cfg.ea_stop_time)
        blocked == \/ q.leverage < cfg.leverage_min
                   \/ ~q.trade_allowed
                   \/ ~q.expert_enabled
                   \/ q.stopped
                   \/ Len(a.buys) + Len(a.sells) >= cfg.totals
                   \/ q.spread > cfg.max_spread
        both == inWindow /\ ~blocked
    IN  [buy |-> both /\ ~(cfg.over /\ Len(a.buys) = 0),
         sell |-> both /\ ~(cfg.over /\ Len(a.sells) = 0)]

\* CanOpen that does not look at the spread
CanOpenAnySpread(a, q, st, now_ts) ==
    LET inWindow == InTimeWindow(now_ts, cfg.ea_start_time, cfg.ea_stop_time)
        blocked == \/ q.leverage < cfg.leverage_min
                   \/ ~q.trade_allowed
                   \/ ~q.expert_enabled
                   \/ q.stopped
                   \/ Len(a.buys) + Len(a.sells) >= cfg.totals
        paused == now_ts < st.pause_until
        both == inWindow /\ ~blocked /\ ~paused
    IN  [buy |-> both /\ ~(cfg.over /\ Len(a.buys) = 0),
         sell |-> both /\ ~(cfg.over /\ Len(a.sells) = 0)]

\* CanOpen that lets over mode open the first order of an empty side
CanOpenOverEmptySide(a, q, st, now_ts) ==
    LET inWindow == InTimeWindow(now_ts, cfg.ea_start_time, cfg.ea_stop_time)
        blocked == \/ q.leverage < cfg.leverage_min
                   \/ ~q.trade_allowed
                   \/ ~q.expert_enabled
                   \/ q.stopped
                   \/ Len(a.buys) + Len(a.sells) >= cfg.totals
                   \/ q.spread > cfg.max_spread
        paused == now_ts < st.pause_until
        both == inWindow /\ ~blocked /\ ~paused
    IN  [buy |-> both, sell |-> both]

\* on_tick, lines 295-320: can_buy and can_sell
CanOpen(a, q, st, now_ts) ==
    LET inWindow == InTimeWindow(now_ts, cfg.ea_start_time, cfg.ea_stop_time)
        blocked == \/ q.leverage < cfg.leverage_min
                   \/ ~q.trade_allowed
                   \/ ~q.expert_enabled
                   \/ q.stopped
                   \/ Len(a.buys) + Len(a.sells) >= cfg.totals
                   \/ q.spread > cfg.max_spread
        paused == now_ts < st.pause_until
        both == inWindow /\ ~blocked /\ ~paused
    IN  [buy |-> both /\ ~(cfg.over /\ Len(a.buys) = 0),
         sell |-> both /\ ~(cfg.over /\ Len(a.sells) = 0)]

\* the take-profit test of one side, lines 334-337 and 340-343
TakeProfit(profit, count) ==
    \/ cfg.profit_by_count /\ profit > cfg.stop_profit * count
    \/ ~cfg.profit_by_count /\ profit > cfg.stop_profit

\* ClosingRule with the homeopathy close-all tried before the take-profits
ClosingRuleCloseAllFirst(a) ==
    IF cfg.over /\ a.total_profit >= cfg.close_all THEN "over"
    ELSE IF ~cfg.over
            /\ cfg.homeopathy_close_all
            /\ (a.buy_ss_count > 0 \/ a.sell_ss_count > 0)
            /\ a.total_profit >= cfg.close_all
    THEN "homeopathy"
    ELSE IF ~cfg.over
            /\ (a.sell_ss_when_no_buy_ss < 1 \/ ~cfg.homeopathy_close_all)
            /\ a.buy_profit > cfg.max_loss_close_all
            /\ a.sell_profit > cfg.max_loss_close_all
            /\ TakeProfit(a.buy_profit, Len(a.buys))
    THEN "tp_buy"
    ELSE IF ~cfg.over
            /\ (a.sell_ss_when_no_buy_ss < 1 \/ ~cfg.homeopathy_close_all)
            /\ a.buy_profit > cfg.max_loss_close_all
            /\ a.sell_profit > cfg.max_loss_close_all
            /\ TakeProfit(a.sell_profit, Len(a.sells))
    THEN "tp_sell"
    ELSE IF ~cfg.over
            /\ a.total_profit >= cfg.close_all
            /\ (a.buy_profit <= cfg.max_loss_close_all
                \/ a.sell_profit <= cfg.max_loss_close_all)
    THEN "mixed"
    ELSE IF cfg.stop_loss # 0 /\ a.total_profit <= cfg.stop_loss THEN "stop_loss"
    ELSE "none"

\* ClosingRule whose mixed close-all does not ask for a side in deep loss
ClosingRuleMixedAnyDepth(a) ==
    IF cfg.over /\ a.total_profit >= cfg.close_all THEN "over"
    ELSE IF ~cfg.over
            /\ (a.sell_ss_when_no_buy_ss < 1 \/ ~cfg.homeopathy_close_all)
            /\ a.buy_profit > cfg.max_loss_close_all
            /\ a.sell_profit > cfg.max_loss_close_all
            /\ TakeProfit(a.buy_profit, Len(a.buys))
    THEN "tp_buy"
    ELSE IF ~cfg.over
            /\ (a.sell_ss_when_no_buy_ss < 1 \/ ~cfg.homeopathy_close_all)
            /\ a.buy_profit > cfg.max_loss_close_all
            /\ a.sell_profit > cfg.max_loss_close_all
            /\ TakeProfit(a.sell_profit, Len(a.sells))
    THEN "tp_sell"
    ELSE IF ~cfg.over
            /\ cfg.homeopathy_close_all
            /\ (a.buy_ss_count > 0 \/ a.sell_ss_count > 0)
            /\ a.total_profit >= cfg.close_all
    THEN "homeopathy"
    ELSE IF ~cfg.over /\ a.total_profit >= cfg.close_all THEN "mixed"
    ELSE IF cfg.stop_loss # 0 /\ a.total_profit <= cfg.stop_loss THEN "stop_loss"
    ELSE "none"

\* on_tick, lines 322-370: the closing rule that fires, first match first
ClosingRule(a) ==
    IF cfg.over /\ a.total_profit >= cfg.close_all THEN "over"
    ELSE IF ~cfg.over
            /\ (a.sell_ss_when_no_buy_ss < 1 \/ ~cfg.homeopathy_close_all)
            /\ a.buy_profit > cfg.max_loss_close_all
            /\ a.sell_profit > cfg.max_loss_close_all
            /\ TakeProfit(a.buy_profit, Len(a.buys))
    THEN "tp_buy"
    ELSE IF ~cfg.over
            /\ (a.sell_ss_when_no_buy_ss < 1 \/ ~cfg.homeopathy_close_all)
            /\ a.buy_profit > cfg.max_loss_close_all
            /\ a.sell_profit > cfg.max_loss_close_all
            /\ TakeProfit(a.sell_profit, Len(a.sells))
    THEN "tp_sell"
    ELSE IF ~cfg.over
            /\ cfg.homeopathy_close_all
            /\ (a.buy_ss_count > 0 \/ a.sell_ss_count > 0)
            /\ a.total_profit >= cfg.close_all
    THEN "homeopathy"
    ELSE IF ~cfg.over
            /\ a.total_profit >= cfg.close_all
            /\ (a.buy_profit <= cfg.max_loss_close_all
                \/ a.sell_profit <= cfg.max_loss_close_all)
    THEN "mixed"
    ELSE IF cfg.stop_loss # 0 /\ a.total_profit <= cfg.stop_loss THEN "stop_loss"
    ELSE "none"

\* the side lizong_7 is called with by each rule
RuleSide(rule) == IF rule = "tp_buy" THEN 1 ELSE IF rule = "tp_sell" THEN -1 ELSE 0

\* ApplyPause that pauses after a take-profit of one side as well
ApplyPauseAnyRule(st, rule, now_ts) ==
    IF rule # "none" /\ cfg.next_time > 0
    THEN [st EXCEPT !.pause_until = now_ts + cfg.next_time]
    ELSE st

\* ApplyPause that takes any next_time but 0
ApplyPauseNonZero(st, rule, now_ts) ==
    IF rule \in {"over", "homeopathy", "mixed", "stop_loss"} /\ cfg.next_time # 0
    THEN [st EXCEPT !.pause_until = now_ts + cfg.next_time]
    ELSE st

\* ApplyPause that ends a pause when a rule fires while it lasts
ApplyPauseEnding(st, rule, now_ts) ==
    IF rule \in {"over", "homeopathy", "mixed", "stop_loss"} /\ cfg.next_time > 0
    THEN [st EXCEPT !.pause_until = IF now_ts < @ THEN now_ts
                                    ELSE now_ts + cfg.next_time]
    ELSE st

\* if self.cfg.next_time > 0: self.state.pause_until = now_ts + self.cfg.next_time
ApplyPause(st, rule, now_ts) ==
    IF rule \in {"over", "homeopathy", "mixed", "stop_loss"} /\ cfg.next_time > 0
    THEN [st EXCEPT !.pause_until = now_ts + cfg.next_time]
    ELSE st

\* best = max(o.profit ...); next(o.lots for o in side if o.profit == best), lines 377-378
BestLot(side_orders) ==
    LET best == MaxOf({o.profit : o \in Range(side_orders)}, 0)
        hits == SelectSeq(side_orders, LAMBDA o : o.profit = best)
    IN  IF hits = << >> THEN 0 ELSE hits[1].lots

\* buy_diff / sell_diff, lines 374 and 385
Dominance(book, order_type) ==
    Lizong10(book, order_type, 1, 1) - Lizong10(book, order_type, 2, 2)

\* HystTrigger that waits for the score to fall below the peak
HystTriggerBelowPeak(peak, diff, lots, side_orders, other_lots) ==
    /\ peak > diff
    /\ diff > 0
    /\ lots > 0
    /\ Len(side_orders) > 3
    /\ lots > BestLot(side_orders) * 3 + other_lots

\* HystTrigger that leaves the lots of the other side out of the comparison
HystTriggerOwnLots(peak, diff, lots, side_orders, other_lots) ==
    /\ peak > 0
    /\ diff > 0
    /\ lots > 0
    /\ Len(side_orders) > 3
    /\ lots > BestLot(side_orders) * 3

\* HystTrigger that does not compare the lots of the side with anything
HystTriggerAnyLots(peak, diff, lots, side_orders, other_lots) ==
    /\ peak > 0
    /\ diff > 0
    /\ lots > 0
    /\ Len(side_orders) > 3

\* HystTrigger that asks for a positive peak only, not for a positive score
HystTriggerOnPeak(peak, diff, lots, side_orders, other_lots) ==
    /\ peak > 0
    /\ lots > 0
    /\ Len(side_orders) > 3
    /\ lots > BestLot(side_orders) * 3 + other_lots

\* the trigger of one side, lines 376-379 and 387-390
HystTrigger(peak, diff, lots, side_orders, other_lots) ==
    /\ peak > 0
    /\ diff > 0
    /\ lots > 0
    /\ Len(side_orders) > 3
    /\ lots > BestLot(side_orders) * 3 + other_lots

\* PartialClose that closes one losing order at most
PartialCloseOneLoser(m, order_type) ==
    Lizong9(Lizong9(m, order_type, 1, 1), order_type, 1, 2)

\* lines 380-381 and 391-392: the best order, then the worst ones
PartialClose(m, order_type) ==
    Lizong9(Lizong9(m, order_type, 1, 1), order_type, 2, 2)

\* ResetPeaks that leaves the buy peak
ResetPeaksSellOnly(st) == [st EXCEPT !.peak_sell_diff = 0]

\* lines 382-383 and 393-394
ResetPeaks(st) == [st EXCEPT !.peak_buy_diff = 0, !.peak_sell_diff = 0]

\* max(self.state.peak_buy_diff, buy_diff), lines 375 and 386
PeakOf(st, order_type, diff) ==
    LET old == IF order_type = BUY THEN st.peak_buy_diff ELSE st.peak_sell_diff
    IN  IF diff > old THEN diff ELSE old

WithPeak(st, order_type, diff) ==
    IF order_type = BUY THEN [st EXCEPT !.peak_buy_diff = PeakOf(st, BUY, diff)]
    ELSE [st EXCEPT !.peak_sell_diff = PeakOf(st, SELL, diff)]

\* the trigger of one side on the aggregates read at the top of the tick
HystFires(st, a, order_type, diff) ==
    IF order_type = BUY
    THEN HystTrigger(PeakOf(st, BUY, diff), diff, a.buy_lots, a.buys, a.sell_lots)
    ELSE HystTrigger(PeakOf(st, SELL, diff), diff, a.sell_lots, a.sells, a.buy_lots)

\* what a side found: its score, the peak before, and the calls of its partial close
HystRecord(x, order_type, diff, fire, m1) ==
    [diff |-> diff,
     old |-> IF order_type = BUY THEN x.st.peak_buy_diff ELSE x.st.peak_sell_diff,
     fired |-> fire,
     first |-> Len(x.m.calls) + 1,
     last |-> IF fire THEN Len(m1.calls) ELSE Len(x.m.calls)]

\* one side, given its score, whether it fires and what its partial close leaves
HystStep(x, order_type, diff, fire, m1) ==
    [m |-> IF fire THEN m1 ELSE x.m,
     st |-> IF fire THEN ResetPeaks(WithPeak(x.st, order_type, diff))
            ELSE WithPeak(x.st, order_type, diff),
     h |-> IF order_type = BUY
           THEN [x.h EXCEPT !.buy = HystRecord(x, order_type, diff, fire, m1)]
           ELSE [x.h EXCEPT !.sell = HystRecord(x, order_type, diff, fire, m1)]]

HystScored(x, a, order_type, diff) ==
    HystStep(x, order_type, diff, HystFires(x.st, a, order_type, diff),
             PartialClose(x.m, order_type))

\* one side of the CloseBuySell block: x = [m, st, h], lines 374-383 and 385-394
HystSide(x, a, order_type) ==
    HystScored([x EXCEPT !.m = Read(Read(x.m))], a, order_type,
               Dominance(x.m.orders, order_type))

NoHyst == [diff |-> 0, old |-> 0, fired |-> FALSE, first |-> 1, last |-> 0]

\* on_tick, lines 373-394
Hysteresis(m, st, a) ==
    LET x0 == [m |-> m, st |-> st, h |-> [buy |-> NoHyst, sell |-> NoHyst]]
    IN  IF cfg.close_buy_sell THEN HystSide(HystSide(x0, a, BUY), a, SELL) ELSE x0

\* the step in force, lines 485 and 588
StepOf(aggressive) == IF aggressive THEN cfg.step ELSE cfg.two_step

\* the distance in force, lines 484 and 586
BaseOf(aggressive) == IF aggressive THEN cfg.min_distance ELSE cfg.two_min_distance

\* BuyPrice that moves a candidate short of the grid line onto it
BuyPriceToGridLine(ask, a, aggressive) ==
    IF Len(a.buys) = 0 THEN N(ask + cfg.first_step)
    ELSE LET px == N(ask + BaseOf(aggressive))
         IN  IF a.buy_low > 0 /\ px > N(a.buy_low - StepOf(aggressive))
             THEN N(a.buy_low - StepOf(aggressive))
             ELSE px

\* BuyPrice that takes the distance in force for a first order too
BuyPriceByDistance(ask, a, aggressive) ==
    LET px == N(ask + BaseOf(aggressive))
    IN  IF a.buy_low > 0 /\ px < N(a.buy_low - StepOf(aggressive))
        THEN N(ask + StepOf(aggressive))
        ELSE px

\* _try_open_buy, lines 480-488: the candidate price
BuyPrice(ask, a, aggressive) ==
    IF Len(a.buys) = 0 THEN N(ask + cfg.first_step)
    ELSE LET px == N(ask + BaseOf(aggressive))
         IN  IF a.buy_low > 0 /\ px < N(a.buy_low - StepOf(aggressive))
             THEN N(ask + StepOf(aggressive))
             ELSE px

\* BuySS that asks for three times the lots only, not for 0.2 lots more
BuySSWithoutMargin(px, a, aggressive) ==
    \/ /\ a.buy_high > 0
       /\ px >= N(a.buy_high + StepOf(aggressive))
       /\ a.sell_lots > a.buy_lots * 3
    \/ /\ cfg.homeopathy
       /\ a.buy_high > 0
       /\ px >= N(a.buy_high + cfg.step)
       /\ a.buy_lots = a.sell_lots

\* _try_open_buy, lines 512-516: ss_comment
BuySS(px, a, aggressive) ==
    \/ /\ a.buy_high > 0
       /\ px >= N(a.buy_high + StepOf(aggressive))
       /\ a.sell_lots > a.buy_lots * 3
       /\ (a.sell_lots - a.buy_lots) * 10 > 2 * LotScale
    \/ /\ cfg.homeopathy
       /\ a.buy_high > 0
       /\ px >= N(a.buy_high + cfg.step)
       /\ a.buy_lots = a.sell_lots

\* _try_open_buy, lines 490-496: cond
BuyCond(px, a, aggressive) ==
    \/ Len(a.buys) = 0
    \/ BuySS(px, a, aggressive)
    \/ a.buy_low > 0 /\ px <= N(a.buy_low - StepOf(aggressive))

\* OpenBlocked that does not look for a pending order of the side
OpenBlockedIgnoringPending(stops, profit, can) ==
    profit <= cfg.max_loss \/ ~can

\* lines 476 and 537: the side opens nothing on this tick
OpenBlocked(stops, profit, can) ==
    stops # << >> \/ profit <= cfg.max_loss \/ ~can

\* Amazing31._try_open_buy
TryOpenBuy(m, now_ts, can_buy, q, a, aggressive, last_open_time, limit_window) ==
    LET count == Len(a.buys)
        px == BuyPrice(q.ask, a, aggressive)
        lots == CalcLot(count)
    IN  IF OpenBlocked(a.buystops, a.buy_profit, can_buy) THEN m
        ELSE IF cfg.open_mode = SLEEP /\ now_ts - last_open_time < cfg.sleep_seconds THEN m
        ELSE IF ~BuyCond(px, a, aggressive) THEN m
        ELSE IF count > 0 /\ ~CanAfford(lots, q) THEN m
        ELSE IF /\ count > 0
                /\ limit_window
                /\ cfg.on_top_not_buy_add # 0
                /\ px >= cfg.on_top_not_buy_add
        THEN m
        ELSE SendPending(m, BUYSTOP, lots, px,
                         IF BuySS(px, a, aggressive) THEN "SS" ELSE "NN")

\* _try_open_sell, lines 541-549: the candidate price
SellPrice(bid, a, aggressive) ==
    IF Len(a.sells) = 0 THEN N(bid - cfg.first_step)
    ELSE LET px == N(bid - BaseOf(aggressive))
         IN  IF a.sell_high > 0 /\ px < N(a.sell_high + StepOf(aggressive))
             THEN N(bid - StepOf(aggressive))
             ELSE px

\* _try_open_sell, lines 573-577: ss_comment
SellSS(px, a, aggressive) ==
    \/ /\ a.sell_low > 0
       /\ px <= N(a.sell_low - StepOf(aggressive))
       /\ a.buy_lots > a.sell_lots * 3
       /\ (a.buy_lots - a.sell_lots) * 10 > 2 * LotScale
    \/ /\ cfg.homeopathy
       /\ a.sell_low > 0
       /\ px <= N(a.sell_low - cfg.step)
       /\ a.buy_lots = a.sell_lots

\* _try_open_sell, lines 551-557: cond
SellCond(px, a, aggressive) ==
    \/ Len(a.sells) = 0
    \/ SellSS(px, a, aggressive)
    \/ a.sell_high > 0 /\ px >= N(a.sell_high + StepOf(aggressive))

\* Amazing31._try_open_sell
TryOpenSell(m, now_ts, can_sell, q, a, aggressive, last_open_time, limit_window) ==
    LET count == Len(a.sells)
        px == SellPrice(q.bid, a, aggressive)
        lots == CalcLot(count)
    IN  IF OpenBlocked(a.sellstops, a.sell_profit, can_sell) THEN m
        ELSE IF cfg.open_mode = SLEEP /\ now_ts - last_open_time < cfg.sleep_seconds THEN m
        ELSE IF ~SellCond(px, a, aggressive) THEN m
        ELSE IF count > 0 /\ ~CanAfford(lots, q) THEN m
        ELSE IF /\ count > 0
                /\ limit_window
                /\ cfg.on_under_not_sell_add # 0
                /\ px <= cfg.on_under_not_sell_add
        THEN m
        ELSE SendPending(m, SELLSTOP, lots, px,
                         IF SellSS(px, a, aggressive) THEN "SS" ELSE "NN")

\* max(buystops, key=open_price) / min(sellstops, key=open_price): the first such
FirstAt(stops, price) ==
    stops[CHOOSE i \in 1..Len(stops) :
             stops[i].open_price = price /\ \A j \in 1..(i - 1) : stops[j].open_price # price]

\* _trail_pending_buy that moves the order to the candidate wherever that lies
TrailPendingBuyAnyWay(m, can_buy, q, a, aggressive) ==
    IF ~can_buy \/ a.buystops = << >> THEN m
    ELSE LET pending == FirstAt(a.buystops,
                                MaxOf({o.open_price : o \in Range(a.buystops)}, 0))
             px == N(q.ask + (IF Len(a.buys) = 0 THEN cfg.first_step
                              ELSE BaseOf(aggressive)))
             step == StepOf(aggressive)
         IN  IF /\ pending.open_price # px
                /\ \/ a.buy_low = 0
                   \/ px <= N(a.buy_low - step)
                   \/ px >= N(a.buy_high + step)
             THEN ModifyOrder(m, pending.ticket, px)
             ELSE m

\* Amazing31._trail_pending_buy
TrailPendingBuy(m, can_buy, q, a, aggressive) ==
    IF ~can_buy \/ a.buystops = << >> THEN m
    ELSE LET pending == FirstAt(a.buystops,
                                MaxOf({o.open_price : o \in Range(a.buystops)}, 0))
             px == N(q.ask + (IF Len(a.buys) = 0 THEN cfg.first_step
                              ELSE BaseOf(aggressive)))
             step == StepOf(aggressive)
         IN  IF /\ N(pending.open_price - cfg.step_trail_orders) > px
                /\ \/ a.buy_low = 0
                   \/ px <= N(a.buy_low - step)
                   \/ px >= N(a.buy_high + step)
             THEN ModifyOrder(m, pending.ticket, px)
             ELSE m

\* Amazing31._trail_pending_sell
TrailPendingSell(m, can_sell, q, a, aggressive) ==
    IF ~can_sell \/ a.sellstops = << >> THEN m
    ELSE LET pending == FirstAt(a.sellstops,
                                MinOf({o.open_price : o \in Range(a.sellstops)}, 0))
             px == N(q.bid - (IF Len(a.sells) = 0 THEN cfg.first_step
                              ELSE BaseOf(aggressive)))
             step == StepOf(aggressive)
         IN  IF /\ N(pending.open_price + cfg.step_trail_orders) < px
                /\ \/ a.sell_high = 0
                   \/ px >= N(a.sell_high + step)
                   \/ px <= N(a.sell_low - step)
             THEN ModifyOrder(m, pending.ticket, px)
             ELSE m

\* OpenGate that opens once per bar in every mode
OpenGateOncePerBar(st, bar_ts) == st.last_bar_time # bar_ts

\* OpenGate that reads the bar the run opened in last, not the state the tick was given
OpenGateOfRun(st, bar_ts) ==
    \/ cfg.open_mode = BAR /\ state.last_bar_time # bar_ts
    \/ cfg.open_mode \in {SLEEP, ALWAYS}

\* lines 398-401
OpenGate(st, bar_ts) ==
    \/ cfg.open_mode = BAR /\ st.last_bar_time # bar_ts
    \/ cfg.open_mode \in {SLEEP, ALWAYS}

\* lines 403-438: the two openings, when the gate is open
Opening(m, open_gate, now_ts, can, q, a, aggressive, limit_window) ==
    IF open_gate
    THEN TryOpenSell(TryOpenBuy(m, now_ts, can.buy, q, a, aggressive,
                                LatestOpenTime(a.buys), limit_window),
                     now_ts, can.sell, q, a, aggressive,
                     LatestOpenTime(a.sells), limit_window)
    ELSE m

\* lines 441-442
Trailing(m, can, q, a, aggressive) ==
    TrailPendingSell(TrailPendingBuy(m, can.buy, q, a, aggressive),
                     can.sell, q, a, aggressive)

\* OpenAndTrail that does not record the bar it opened in
OpenAndTrailForgettingBar(x, now_ts, bar_ts, q, a, can, aggressive, open_gate) ==
    [m |-> Trailing(Opening(x.m, open_gate, now_ts, can, q, a, aggressive,
                            InTimeWindow(now_ts, cfg.limit_start_time,
                                         cfg.limit_stop_time)),
                    can, q, a, aggressive),
     st |-> x.st,
     gate |-> open_gate, h |-> x.h]

\* on_tick, lines 396-442: opening and trailing, x being what the hysteresis left
OpenAndTrail(x, now_ts, bar_ts, q, a, can, aggressive, open_gate) ==
    [m |-> Trailing(Opening(x.m, open_gate, now_ts, can, q, a, aggressive,
                            InTimeWindow(now_ts, cfg.limit_start_time,
                                         cfg.limit_stop_time)),
                    can, q, a, aggressive),
     st |-> IF open_gate THEN [x.st EXCEPT !.last_bar_time = bar_ts] ELSE x.st,
     gate |-> open_gate, h |-> x.h]

\* AggressiveMode that is on at the target already
AggressiveModeAtTarget(total_profit) == cfg.money = 0 \/ total_profit >= cfg.money

\* on_tick, line 396: aggressive_mode
AggressiveMode(total_profit) == cfg.money = 0 \/ total_profit > cfg.money

\* on_tick, lines 372-442: the stages after the closing rules
AfterRules(x, now_ts, bar_ts, q, a, can) ==
    OpenAndTrail(x, now_ts, bar_ts, q, a, can, AggressiveMode(a.total_profit),
                 OpenGate(x.st, bar_ts))

\* what a tick did: the venue and the engine state after it, the rule that fired,
\* the gating, the open gate and the hysteresis
Outcome(r, rule, can) ==
    [m |-> r.m, st |-> r.st, rule |-> rule, can |-> can, gate |-> r.gate, h |-> r.h]

\* Closing that pauses only after a liquidation that closed everything it went for
ClosingPausingOnSuccess(m0, st0, now_ts, rule) ==
    [m |-> Lizong7(m0, RuleSide(rule)),
     st |-> IF Lizong7(m0, RuleSide(rule)).l7.ok THEN ApplyPause(st0, rule, now_ts)
            ELSE st0,
     gate |-> FALSE, h |-> [buy |-> NoHyst, sell |-> NoHyst]]

\* lines 322-370: the rule closes and, closing everything, pauses; on_tick returns
Closing(m0, st0, now_ts, rule) ==
    [m |-> Lizong7(m0, RuleSide(rule)), st |-> ApplyPause(st0, rule, now_ts),
     gate |-> FALSE, h |-> [buy |-> NoHyst, sell |-> NoHyst]]

\* on_tick whose closing rules do not return
OnTickFallingThrough(m0, st0, now_ts, bar_ts, q, a, can, rule) ==
    Outcome(AfterRules(IF rule # "none"
                       THEN Hysteresis(Lizong7(m0, RuleSide(rule)),
                                       ApplyPause(st0, rule, now_ts), a)
                       ELSE Hysteresis(m0, st0, a),
                       now_ts, bar_ts, q, a, can),
            rule, can)

\* on_tick whose closing rules are tried only when a side may open
OnTickFromGated(m0, st0, now_ts, bar_ts, q, a, can, rule) ==
    Outcome(IF rule # "none" /\ (can.buy \/ can.sell) THEN Closing(m0, st0, now_ts, rule)
            ELSE AfterRules(Hysteresis(m0, st0, a), now_ts, bar_ts, q, a, can),
            rule, can)

\* on_tick from line 322 on, given the aggregates, the gating and the rule that fires
OnTickFrom(m0, st0, now_ts, bar_ts, q, a, can, rule) ==
    Outcome(IF rule # "none" THEN Closing(m0, st0, now_ts, rule)
            ELSE AfterRules(Hysteresis(m0, st0, a), now_ts, bar_ts, q, a, can),
            rule, can)

\* the gating and the rule of a tick, from its aggregates
OnTickWith(m0, st0, now_ts, bar_ts, q, a) ==
    OnTickFrom(m0, st0, now_ts, bar_ts, q, a, CanOpen(a, q, st0, now_ts), ClosingRule(a))

\* Amazing31.on_tick
OnTick(m0, st0, now_ts, bar_ts, q) ==
    OnTickWith(m0, st0, now_ts, bar_ts, q, Aggregates(m0.orders))

(***************************************************************************)
(* The venue between ticks, and the runs.                                  *)
(***************************************************************************)
Filled(o) == o.type \in {BUY, SELL}

\* SimBroker._mark_to_market: the floating profit of each order at this quote
Mark(book, pf) == [i \in 1..Len(book) |-> [book[i] EXCEPT !.profit = pf[i]]]

\* the profits the venue may quote for one order: a pending order floats nothing
MarkChoices(o, fixed) ==
    IF ~Filled(o) THEN {0}
    ELSE IF o.ticket \in DOMAIN fixed THEN {fixed[o.ticket]}
    ELSE venue.profits

RECURSIVE MarkSeqs(_, _)
MarkSeqs(book, fixed) ==
    IF book = << >> THEN {<< >>}
    ELSE {<<p>> \o rest : p \in MarkChoices(Head(book), fixed),
                          rest \in MarkSeqs(Tail(book), fixed)}

Marks(book) == UNION {MarkSeqs(book, fixed) : fixed \in venue.marks}

\* the bar a time falls in: Bar.ts, the bars running from the venue's first bar
BarOf(t) == t - ((t - venue.bar0) % BarSeconds)

\* the calls of a tick that asked for a pending order and were rejected
RejectedSends(calls) == SelectSeq(calls, LAMBDA c : c.op = "send" /\ ~c.ok)

\* the bar of the latest tick of the run that reached the opening stage, -1 before
\* the first such tick
OpenedOf(e) == IF e.kind \in {"tick", "fill"} THEN e.opened ELSE -1

NoLast == [kind |-> "none", now |-> 0, bar |-> 0, q |-> << >>, pre |-> << >>,
           calls |-> << >>]

\* what the run keeps of the tick before: the inputs of a tick whose placement the
\* venue rejected, nothing of any other step
LastOf(e) ==
    IF e.kind = "tick" /\ RejectedSends(e.calls) # << >>
    THEN [kind |-> "tick", now |-> e.now, bar |-> e.bar, q |-> e.q, pre |-> e.pre,
          calls |-> e.calls]
    ELSE NoLast

NoL7 == [ran |-> FALSE, ok |-> FALSE, rounds |-> 0, side |-> 0]

State0 == [pause_until |-> 0, last_bar_time |-> 0, peak_buy_diff |-> 0,
           peak_sell_diff |-> 0]

\* the replay loop's step: on_bar, then strat.on_tick(now_ts, current_bar_ts)
Tick ==
    \E dt \in venue.dts, ask \in venue.asks, spread \in venue.spreads,
       f \in venue.facts, rej \in venue.rejects :
        \E pf \in Marks(orders) :
            LET t == now + dt
                q == [ask |-> ask, bid |-> ask - spread, spread |-> spread,
                      leverage |-> f.leverage, trade_allowed |-> f.trade_allowed,
                      expert_enabled |-> f.expert_enabled, stopped |-> f.stopped,
                      free_margin |-> f.free_margin, margin_per_lot |-> f.margin_per_lot]
                m0 == [orders |-> Mark(orders, pf), nextTicket |-> nextTicket,
                       rej |-> rej, calls |-> << >>, sleeps |-> 0, l7 |-> NoL7,
                       symbol |-> venue.symbol, bar |-> BarOf(t), reads |-> 1,
                       stuck |-> venue.stuck]
            IN  \E r \in {OnTick(m0, state, t, BarOf(t), q)} :
                /\ t <= MaxNow
                /\ now' = t
                /\ orders' = Mark(r.m.orders, [i \in 1..Len(r.m.orders) |-> 0])
                /\ nextTicket' = r.m.nextTicket
                /\ state' = r.st
                /\ ev' = [kind |-> "tick", now |-> t, bar |-> BarOf(t), q |-> q,
                          rej |-> rej, pre |-> m0.orders, st0 |-> state,
                          calls |-> r.m.calls, sleeps |-> r.m.sleeps, l7 |-> r.m.l7,
                          rule |-> r.rule, can |-> r.can, gate |-> r.gate, h |-> r.h,
                          post |-> r.m.orders, last |-> LastOf(ev),
                          reads |-> r.m.reads, tickets |-> nextTicket,
                          opened0 |-> OpenedOf(ev),
                          opened |-> IF r.gate THEN BarOf(t) ELSE OpenedOf(ev)]
                /\ UNCHANGED <<cfg, venue>>

\* SimBroker.trigger_pending_from_bar, for one pending order the bar reaches
Fill ==
    \E i \in 1..Len(orders), slip \in venue.slips :
        /\ orders[i].type \in {BUYSTOP, SELLSTOP}
        /\ orders' = [orders EXCEPT
                        ![i].type = IF @ = BUYSTOP THEN BUY ELSE SELL,
                        ![i].open_price = IF orders[i].type = BUYSTOP THEN @ + slip
                                          ELSE @ - slip,
                        ![i].open_time = BarOf(now)]
        /\ ev' = [kind |-> "fill", ticket |-> orders[i].ticket, opened |-> OpenedOf(ev)]
        /\ UNCHANGED <<cfg, venue, nextTicket, state, now>>

Facts0 == [leverage |-> 100, trade_allowed |-> TRUE, expert_enabled |-> TRUE,
           stopped |-> FALSE, free_margin |-> 10000, margin_per_lot |-> 1000]

\* an order as SimBroker.send_pending made it and trigger_pending_from_bar filled it
SeedOrder(ticket, type, lots, price, comment) ==
    [ticket |-> ticket, symbol |-> "USDCHF", magic |-> 9453, type |-> type,
     lots |-> lots, open_price |-> price, profit |-> 0, swap |-> 0, commission |-> 0,
     comment |-> comment, open_time |-> 0]

\* books an earlier run of the engine left at the venue
SeedPair == <<SeedOrder(1, BUY, 10, 13, "NN"), SeedOrder(2, SELL, 10, 11, "NN")>>

SeedBuyGrid ==
    <<SeedOrder(1, BUY, 10, 16, "NN"), SeedOrder(2, BUY, 20, 15, "NN"),
      SeedOrder(3, BUY, 40, 14, "NN"), SeedOrder(4, BUY, 80, 13, "NN"),
      SeedOrder(5, SELL, 10, 11, "NN")>>

SeedSellGrid ==
    <<SeedOrder(1, SELL, 10, 8, "NN"), SeedOrder(2, SELL, 20, 9, "NN"),
      SeedOrder(3, SELL, 40, 10, "NN"), SeedOrder(4, SELL, 80, 11, "NN"),
      SeedOrder(5, BUY, 10, 13, "NN")>>

Venue0 == [symbol |-> "USDCHF", profits |-> {-5, 50}, asks |-> {11, 12, 13},
           spreads |-> {1}, facts |-> {Facts0}, rejects |-> {0}, slips |-> {0},
           dts |-> {1}, seed |-> << >>, marks |-> {<< >>}, bar0 |-> 0,
           stuck |-> {}]

\* a filled buy and the sell stop placed beside it, the ask having fallen since
SeedOneSided == <<SeedOrder(1, BUY, 10, 13, "NN"), SeedOrder(2, SELLSTOP, 10, 10, "NN")>>

\* the same the other way round: a filled sell, the buy stop resting above
SeedOneSidedSell ==
    <<SeedOrder(1, SELL, 10, 10, "NN"), SeedOrder(2, BUYSTOP, 10, 13, "NN")>>

\* a small buy under a sell thirty times its size
SeedOutweighed == <<SeedOrder(1, BUY, 10, 10, "NN"), SeedOrder(2, SELL, 300, 8, "NN")>>

\* the same the other way round, and a buy under a sell just 0.2 lots larger
SeedOutweighedSell == <<SeedOrder(1, SELL, 10, 10, "NN"), SeedOrder(2, BUY, 300, 12, "NN")>>

SeedAtMargin == <<SeedOrder(1, BUY, 10, 10, "NN"), SeedOrder(2, SELL, 210, 8, "NN")>>

\* a filled buy and a buy stop resting well above it, placed against the trend
SeedRestingAbove ==
    <<SeedOrder(1, BUY, 10, 10, "NN"), SeedOrder(2, BUYSTOP, 10, 16, "SS")>>

\* a grid of four orders on either side, the buys growing, the sells all of a size
SeedTwoGrids ==
    <<SeedOrder(1, BUY, 10, 16, "NN"), SeedOrder(2, BUY, 20, 15, "NN"),
      SeedOrder(3, BUY, 40, 14, "NN"), SeedOrder(4, BUY, 80, 13, "NN"),
      SeedOrder(5, SELL, 10, 8, "NN"), SeedOrder(6, SELL, 10, 9, "NN"),
      SeedOrder(7, SELL, 10, 10, "NN"), SeedOrder(8, SELL, 10, 11, "NN")>>

\* orders of another instrument or another owner at the same venue, by ticket:
\* a buy of another instrument, a sell and a pending buy of another owner
SeedForeign ==
    <<SeedOrder(1, BUY, 10, 13, "NN"),
      [SeedOrder(2, BUY, 10, 13, "NN") EXCEPT !.symbol = "EURUSD"],
      [SeedOrder(3, SELL, 10, 11, "NN") EXCEPT !.magic = 7],
      [SeedOrder(4, BUYSTOP, 10, 16, "NN") EXCEPT !.magic = 7]>>

\* the grid of four buys, with a buy of another instrument and a buy of another
\* owner listed after it
SeedForeignGrid ==
    SeedBuyGrid \o <<[SeedOrder(6, BUY, 10, 13, "NN") EXCEPT !.symbol = "EURUSD"],
                     [SeedOrder(7, BUY, 10, 13, "NN") EXCEPT !.magic = 7]>>

\* the account and terminal facts a venue may report: all well, or one of them off
FactsChoices ==
    { Facts0, [Facts0 EXCEPT !.leverage = 50], [Facts0 EXCEPT !.trade_allowed = FALSE],
      [Facts0 EXCEPT !.expert_enabled = FALSE], [Facts0 EXCEPT !.stopped = TRUE] }

\* free margin just below, at and just above the margin of twice 0.01 lots
MarginChoices ==
    { [Facts0 EXCEPT !.free_margin = 19], [Facts0 EXCEPT !.free_margin = 20],
      [Facts0 EXCEPT !.free_margin = 21] }

\* quotes of the seeded grids, by ticket: the profit of each of the five orders
GridMarks ==
    { <<50, -5, -5, -5, 50>>, <<50, -5, -5, -5, -5>>, <<-5, 50, -5, -5, -5>>,
      <<-5, -5, -5, 50, -5>>, <<50, 50, -5, 50, -5>>, <<50, 50, 50, 50, 50>>,
      <<-5, -5, -5, -5, 50>>, <<0, -5, -5, 50, -5>>, <<0, 0, 0, 50, -5>> }

\* the runs explored: a configuration and a venue each
Scenarios ==
    { \* the defaults, from an empty book
      [cfg |-> DefaultConfig, venue |-> Venue0],
      \* homeopathy opening: "SS" orders, and the close-all rule that needs them
      [cfg |-> [DefaultConfig EXCEPT !.homeopathy = TRUE, !.next_time = 2],
       venue |-> Venue0],
      \* one side in deep loss, a stop loss, a pause after closing everything
      [cfg |-> [DefaultConfig EXCEPT !.max_loss_close_all = 5, !.stop_loss = 10,
                                     !.next_time = 2, !.homeopathy_close_all = FALSE],
       venue |-> Venue0],
      \* a venue that rejects calls
      [cfg |-> [DefaultConfig EXCEPT !.profit_by_count = FALSE, !.stop_loss = 10,
                                     !.next_time = -1],
       venue |-> [Venue0 EXCEPT !.rejects = {0, 3, -1}, !.seed = SeedPair,
                                !.asks = {12}]],
      \* over mode on a book left by an earlier run, the venue rejecting at times
      [cfg |-> [DefaultConfig EXCEPT !.over = TRUE, !.next_time = 2],
       venue |-> [Venue0 EXCEPT !.seed = SeedPair, !.rejects = {0, -1}]],
      \* a grid of four orders on one side
      [cfg |-> [DefaultConfig EXCEPT !.k_lot = <<2, 1>>, !.stop_profit = 50],
       venue |-> [Venue0 EXCEPT !.seed = SeedBuyGrid, !.asks = {12, 14},
                                !.marks = GridMarks, !.profits = {-5}]],
      [cfg |-> [DefaultConfig EXCEPT !.k_lot = <<2, 1>>, !.stop_profit = 50],
       venue |-> [Venue0 EXCEPT !.seed = SeedSellGrid, !.asks = {10, 12},
                                !.marks = GridMarks, !.profits = {-5}]],
      \* a venue whose facts and spread change, and a low cap on the order count
      [cfg |-> [DefaultConfig EXCEPT !.totals = 2],
       venue |-> [Venue0 EXCEPT !.seed = SeedOneSided, !.asks = {10, 13},
                                !.spreads = {1, 3}, !.facts = FactsChoices,
                                !.dts = {2}]],
      \* over mode from an empty book, and on a book with one side empty
      [cfg |-> [DefaultConfig EXCEPT !.over = TRUE], venue |-> Venue0],
      [cfg |-> [DefaultConfig EXCEPT !.over = TRUE],
       venue |-> [Venue0 EXCEPT !.seed = SeedOneSided, !.asks = {10, 13},
                                !.profits = {-5}]],
      [cfg |-> [DefaultConfig EXCEPT !.over = TRUE],
       venue |-> [Venue0 EXCEPT !.seed = SeedOneSidedSell, !.asks = {10, 13},
                                !.profits = {-5}]],
      \* a venue that also holds orders of another instrument and of another owner
      [cfg |-> DefaultConfig,
       venue |-> [Venue0 EXCEPT !.seed = SeedForeign, !.asks = {10, 13},
                                !.marks = {<<-5, 50, 50>>, <<50, 50, -5>>},
                                !.profits = {-5}]],
      [cfg |-> [DefaultConfig EXCEPT !.k_lot = <<2, 1>>, !.stop_profit = 50],
       venue |-> [Venue0 EXCEPT !.seed = SeedForeignGrid, !.asks = {12},
                                !.marks = {<<50, -5, -5, -5, 50>>, <<0, 0, 0, 50, -5>>},
                                !.profits = {-20, 60}, !.dts = {2}]],
      \* a money target, the conservative grid wider than the aggressive one, the
      \* buy side outweighed, the ask far below the buy or just above it
      [cfg |-> [DefaultConfig EXCEPT !.money = 40, !.two_min_distance = 3, !.two_step = 2],
       venue |-> [Venue0 EXCEPT !.seed = SeedOutweighed, !.asks = {4, 11},
                                !.marks = {<<1, 1>>, <<1, -45>>}, !.profits = {-5}]],
      [cfg |-> DefaultConfig,
       venue |-> [Venue0 EXCEPT !.seed = SeedOutweighedSell, !.asks = {11},
                                !.marks = {<<1, 1>>}, !.profits = {-5}]],
      [cfg |-> DefaultConfig,
       venue |-> [Venue0 EXCEPT !.seed = SeedAtMargin, !.asks = {11},
                                !.marks = {<<1, 1>>}, !.profits = {-5}]],
      \* the margin guard on, the free margin about the margin of the second order
      [cfg |-> [DefaultConfig EXCEPT !.check_margin_for_add_orders = TRUE],
       venue |-> [Venue0 EXCEPT !.facts = MarginChoices, !.asks = {10, 13},
                                !.profits = {-5}]],
      [cfg |-> DefaultConfig,
       venue |-> [Venue0 EXCEPT !.seed = SeedRestingAbove, !.asks = {11},
                                !.marks = {<<1>>}, !.profits = {-5}]],
      \* a stop loss on a pair, and a pause short enough for the run to trade again
      [cfg |-> [DefaultConfig EXCEPT !.stop_loss = 10, !.next_time = 1],
       venue |-> [Venue0 EXCEPT !.seed = SeedPair, !.asks = {12}]],
      \* pending orders that trail only when the market has moved more than two points
      [cfg |-> [DefaultConfig EXCEPT !.step_trail_orders = 2],
       venue |-> [Venue0 EXCEPT !.asks = {10, 11, 13}, !.profits = {-5},
                                !.rejects = {0, -1}]],
      \* a grid on either side, each with an order in profit; the venue rejects at times
      [cfg |-> [DefaultConfig EXCEPT !.stop_profit = 50],
       venue |-> [Venue0 EXCEPT !.seed = SeedTwoGrids, !.asks = {12},
                                !.marks = {<<50, -5, -5, -5, 50, -5, -5, -5>>,
                                           <<-5, -5, -5, -5, 50, -5, -5, -5>>},
                                !.rejects = {0, 2}, !.profits = {-5}]],
      \* over mode with a pause, the venue refusing every call on the sell of the pair
      [cfg |-> [DefaultConfig EXCEPT !.over = TRUE, !.next_time = 2],
       venue |-> [Venue0 EXCEPT !.seed = SeedPair, !.stuck = {2}, !.asks = {12}]],
      \* a trading window the run never enters, over a pair with a side in profit
      [cfg |-> [DefaultConfig EXCEPT !.ea_start_time = <<1, 0>>, !.ea_stop_time = <<2, 0>>],
       venue |-> [Venue0 EXCEPT !.seed = SeedPair, !.asks = {12}]],
      \* opening once per bar and opening after a sleep, the venue rejecting at times
      [cfg |-> [DefaultConfig EXCEPT !.open_mode = BAR],
       venue |-> [Venue0 EXCEPT !.rejects = {0, -1}, !.asks = {12}, !.dts = {1, 2},
                                !.bar0 = 1]],
      [cfg |-> [DefaultConfig EXCEPT !.open_mode = SLEEP, !.sleep_seconds = 1],
       venue |-> [Venue0 EXCEPT !.rejects = {0, -1}, !.asks = {12}]] }

Init ==
    \E s \in Scenarios :
        /\ cfg = PostInit(s.cfg)
        /\ venue = s.venue
        /\ orders = s.venue.seed
        /\ nextTicket = 1 + MaxOf({o.ticket : o \in Range(s.venue.seed)}, 0)
        /\ state = State0
        /\ now = 0
        /\ ev = [kind |-> "init"]

Next == Tick \/ Fill

Spec == Init /\ [][Next]_vars

(***************************************************************************)
(* The functions of a configuration on their own: a Config is constructed  *)
(* from raw values, then _calc_lot is asked for the lot of the n-th order  *)
(* of a side, or _in_time_window for a clock time against the trading      *)
(* window.  ev carries the raw values the configuration was made from.     *)
(***************************************************************************)
MaxCount == 4       \* most filled orders of a side that _calc_lot is asked about

\* lot sizing: lot, max_lot, k_lot, plus_lot and digits_lot, off the rounding ties
LotConfigs ==
    { [DefaultConfig EXCEPT !.lot = l, !.max_lot = mx, !.k_lot = k, !.plus_lot = pl,
                            !.digits_lot = d] :
        l \in {10, 16, 30}, mx \in {16, 100}, k \in {<<13, 10>>, <<2, 1>>, <<2, 5>>},
        pl \in {0, 4}, d \in {1, 2, 3} }

\* the four loss thresholds, given positive, negative and zero
LossConfigs ==
    { [DefaultConfig EXCEPT !.max_loss = a, !.max_loss_close_all = b, !.stop_loss = c,
                            !.money = d] :
        a \in {10, -10, 0}, b \in {10, -10, 0}, c \in {10, -10, 0}, d \in {10, -10, 0} }

\* trading windows: the default, one inside the day, one across midnight, one point
WindowConfigs ==
    { [DefaultConfig EXCEPT !.ea_start_time = w[1], !.ea_stop_time = w[2]] :
        w \in { <<<<0, 0>>, <<24, 0>>>>, <<<<9, 0>>, <<17, 0>>>>,
                <<<<22, 0>>, <<6, 0>>>>, <<<<9, 0>>, <<9, 0>>>>,
                <<<<22, 0, 30>>, <<24, 0>>>> } }

FnConfigs == LotConfigs \cup LossConfigs \cup WindowConfigs

\* clock times, as timestamps: around each window's ends, the ends of the day,
\* and the same time of day one day later
ClockTimes ==
    { 0, 1, 21599, 21600, 21601, 32399, 32400, 32401, 61199, 61200, 61201,
      79199, 79200, 79201, 79229, 79230, 86398, 86399, 86400, 86400 + 32400,
      86400 + 61201 }

\* Config(...): the dataclass constructor, __post_init__ included
Construct ==
    \E c \in FnConfigs :
        /\ cfg' = PostInit(c)
        /\ ev' = [kind |-> "config", raw |-> c]
        /\ UNCHANGED <<venue, orders, nextTicket, state, now>>

\* _calc_lot(n), and _calc_lot(n + 1) beside it
Size ==
    \E n \in 0..MaxCount :
        /\ ev' = [kind |-> "lot", raw |-> ev.raw, n |-> n, lots |-> CalcLot(n),
                  more |-> CalcLot(n + 1)]
        /\ UNCHANGED <<cfg, venue, orders, nextTicket, state, now>>

\* _in_time_window(now_ts, ea_start_time, ea_stop_time), as on_tick asks, line 298
Window ==
    \E t \in ClockTimes :
        /\ ev' = [kind |-> "window", raw |-> ev.raw, t |-> t,
                  inside |-> InTimeWindow(t, cfg.ea_start_time, cfg.ea_stop_time)]
        /\ UNCHANGED <<cfg, venue, orders, nextTicket, state, now>>

\* aggregate profits around the money target of LossConfigs, line 282
TotalProfits == {-11, -10, -9, 0, 9, 10, 11}

\* aggressive_mode of on_tick, line 396, for an aggregate profit
Mode ==
    \E p \in TotalProfits :
        /\ ev' = [kind |-> "mode", raw |-> ev.raw, total |-> p,
                  aggressive |-> AggressiveMode(p)]
        /\ UNCHANGED <<cfg, venue, orders, nextTicket, state, now>>

FnInit ==
    /\ cfg = PostInit(DefaultConfig)
    /\ venue = Venue0
    /\ orders = << >>
    /\ nextTicket = 1
    /\ state = State0
    /\ now = 0
    /\ ev = [kind |-> "config", raw |-> DefaultConfig]

FnNext == Construct \/ Size \/ Window \/ Mode

FnSpec == FnInit /\ [][FnNext]_vars

(***************************************************************************)
(* What the claims speak of, read from the latest tick.                    *)
(***************************************************************************)
IsTick == ev.kind = "tick"

\* the calls of the latest tick with one of the given operations
CallsOf(ops) == SelectSeq(ev.calls, LAMBDA c : c.op \in ops)

NoOpening == CallsOf({"send", "modify"}) = << >>

TicketsOf(book, types) == {o.ticket : o \in {x \in Range(book) : x.type \in types}}

SideOf(book, types) == SelectSeq(book, LAMBDA o : o.type \in types)

\* the engine's own orders in a list of the venue, and the others
Own(o) == o.symbol = cfg.symbol /\ o.magic = cfg.magic

OwnOf(book) == SelectSeq(book, LAMBDA o : Own(o))

ForeignOf(book) == SelectSeq(book, LAMBDA o : ~Own(o))

\* the conditions of the five closing rules, as section 4.2 states them
OverCondition(a) == cfg.over /\ a.total_profit >= cfg.close_all

TakeProfitOpen(a) ==
    /\ ~cfg.over
    /\ ~(a.sell_ss_count >= 1 /\ a.buy_ss_count = 0 /\ cfg.homeopathy_close_all)
    /\ a.buy_profit > cfg.max_loss_close_all
    /\ a.sell_profit > cfg.max_loss_close_all

BuyTakeProfitCondition(a) ==
    /\ TakeProfitOpen(a)
    /\ a.buy_profit > (IF cfg.profit_by_count THEN cfg.stop_profit * Len(a.buys)
                       ELSE cfg.stop_profit)

SellTakeProfitCondition(a) ==
    /\ TakeProfitOpen(a)
    /\ a.sell_profit > (IF cfg.profit_by_count THEN cfg.stop_profit * Len(a.sells)
                        ELSE cfg.stop_profit)

HomeopathyCondition(a) ==
    /\ ~cfg.over
    /\ cfg.homeopathy_close_all
    /\ a.buy_ss_count + a.sell_ss_count >= 1
    /\ a.total_profit >= cfg.close_all

MixedCondition(a) ==
    /\ ~cfg.over
    /\ a.total_profit >= cfg.close_all
    /\ (a.buy_profit <= cfg.max_loss_close_all \/ a.sell_profit <= cfg.max_loss_close_all)

StopLossCondition(a) == cfg.stop_loss # 0 /\ a.total_profit <= cfg.stop_loss

\* the first rule, in the order of section 4.2, whose condition holds
FirstRule(a) ==
    IF OverCondition(a) THEN "over"
    ELSE IF BuyTakeProfitCondition(a) THEN "tp_buy"
    ELSE IF SellTakeProfitCondition(a) THEN "tp_sell"
    ELSE IF HomeopathyCondition(a) THEN "homeopathy"
    ELSE IF MixedCondition(a) THEN "mixed"
    ELSE IF StopLossCondition(a) THEN "stop_loss"
    ELSE "none"

CloseEverything == {"over", "homeopathy", "mixed", "stop_loss"}

PreView == Aggregates(ev.pre)

BuySide == {BUY, BUYSTOP}
SellSide == {SELL, SELLSTOP}

\* the calls of the latest tick touch orders of these types only
OnlyTouches(types) ==
    \A i \in 1..Len(ev.calls) : ev.calls[i].ticket \in TicketsOf(ev.pre, types)

(***************************************************************************)
(* C1.  On every tick the closing rules are tried in the order over-mode   *)
(* liquidation, buy take-profit, sell take-profit, homeopathy close-all,   *)
(* mixed close-all, stop-loss, and only the first whose condition holds    *)
(* acts: a take-profit closes its own side and leaves every order of the   *)
(* other side as it was, even when a close-all condition holds as well.    *)
(***************************************************************************)
C1_FirstMatchWins ==
    IsTick =>
        LET rule == FirstRule(PreView)
        IN  /\ ev.rule = rule
            /\ ev.l7.ran = (rule # "none")
            /\ rule = "tp_buy" =>
                   /\ ev.l7.side = 1
                   /\ OnlyTouches(BuySide)
                   /\ SideOf(ev.post, SellSide) = SideOf(ev.pre, SellSide)
            /\ rule = "tp_sell" =>
                   /\ ev.l7.side = -1
                   /\ OnlyTouches(SellSide)
                   /\ SideOf(ev.post, BuySide) = SideOf(ev.pre, BuySide)
            /\ rule \in CloseEverything => ev.l7.side = 0
            /\ rule # "none" => CallsOf({"close", "delete"}) = ev.calls

\* buy take-profit and homeopathy close-all both hold; the buys go, the sells stay
C1_Witness ==
    /\ IsTick
    /\ BuyTakeProfitCondition(PreView)
    /\ HomeopathyCondition(PreView)
    /\ SideOf(ev.pre, SellSide) # << >>
    /\ SideOf(ev.post, SellSide) = SideOf(ev.pre, SellSide)
    /\ SideOf(ev.post, BuySide) = << >>
    /\ ev.calls # << >>

(***************************************************************************)
(* C2.  On a tick with now < pauseUntil the engine places no pending order *)
(* and reprices none.                                                      *)
(***************************************************************************)
C2_PausedOpensNothing ==
    (IsTick /\ ev.now < ev.st0.pause_until) => NoOpening

\* a paused tick that reached the opening stage with an empty buy side and
\* nothing else in the way of a first buy order
C2_Witness ==
    /\ IsTick
    /\ ev.now < ev.st0.pause_until
    /\ ev.rule = "none"
    /\ ev.gate
    /\ ~cfg.over
    /\ ev.q.spread <= cfg.max_spread
    /\ PreView.buys = << >>
    /\ PreView.buystops = << >>
    /\ ev.calls = << >>

(***************************************************************************)
(* C3.  lizong_7 runs at most 10 rounds, each over the orders not yet      *)
(* closed, and reports success exactly when a round ends with no failed    *)
(* close or delete: it stops at the first such round and fails when the    *)
(* tenth round still has a failure.  It waits one second after each failed *)
(* round, so at most 10 seconds.  When the venue rejects the first 3 calls *)
(* and then accepts, it succeeds; when the venue rejects every call made   *)
(* to it, it fails after exactly 10 rounds and 10 seconds.                 *)
(***************************************************************************)
\* round r of the loop had a failed call (a call of round r is logged after
\* r - 1 seconds of waiting)
RoundFailed(r) == \E i \in 1..Len(ev.calls) : ev.calls[i].at = r - 1 /\ ~ev.calls[i].ok

C3_RetryLoop ==
    (IsTick /\ ev.l7.ran) =>
        /\ ev.l7.rounds \in 1..10
        /\ ev.l7.ok <=> ~RoundFailed(ev.l7.rounds)
        /\ \A r \in 1..(ev.l7.rounds - 1) : RoundFailed(r)
        /\ ~ev.l7.ok => ev.l7.rounds = 10
        /\ ev.sleeps = (IF ev.l7.ok THEN ev.l7.rounds - 1 ELSE ev.l7.rounds)
        /\ ev.sleeps <= 10
        /\ \A i \in 1..Len(ev.calls) :
               /\ ev.calls[i].at < ev.l7.rounds
               /\ \A j \in (i + 1)..Len(ev.calls) :
                      ev.calls[i].ok => ev.calls[j].ticket # ev.calls[i].ticket
        /\ ev.rej = 3 => ev.l7.ok
        /\ (ev.rej = -1 /\ ev.calls # << >>) =>
               (~ev.l7.ok /\ ev.l7.rounds = 10 /\ ev.sleeps = 10)

\* the venue rejected every call: ten rounds, ten seconds, failure
C3_Witness ==
    /\ IsTick
    /\ ev.l7.ran
    /\ ev.rej = -1
    /\ ev.calls # << >>
    /\ \A i \in 1..Len(ev.calls) : ~ev.calls[i].ok
    /\ ~ev.l7.ok
    /\ ev.l7.rounds = 10
    /\ ev.sleeps = 10
    /\ ev.post = ev.pre

(***************************************************************************)
(* C4.  When a closing rule fires, the tick ends there: no hysteresis is   *)
(* evaluated, no pending order is placed or repriced, and the two peaks    *)
(* and lastBarTimestamp keep the values they had before the tick.          *)
(***************************************************************************)
C4_ClosingEndsTick ==
    (IsTick /\ ev.rule # "none") =>
        /\ NoOpening
        /\ ~ev.gate
        /\ ev.h = [buy |-> NoHyst, sell |-> NoHyst]
        /\ state.peak_buy_diff = ev.st0.peak_buy_diff
        /\ state.peak_sell_diff = ev.st0.peak_sell_diff
        /\ state.last_bar_time = ev.st0.last_bar_time

\* a rule fired on a tick of a new bar whose buy score is above the tracked peak
C4_Witness ==
    /\ IsTick
    /\ ev.rule # "none"
    /\ ev.calls # << >>
    /\ ev.bar # ev.st0.last_bar_time
    /\ Dominance(ev.post, BUY) > ev.st0.peak_buy_diff
    /\ state.peak_buy_diff = ev.st0.peak_buy_diff
    /\ state.last_bar_time = ev.st0.last_bar_time

(***************************************************************************)
(* C5.  When a rule that closes everything (over-mode, homeopathy, mixed,  *)
(* stop-loss) fires on a tick at time t, pauseUntil becomes t + nextTime   *)
(* if nextTime > 0 and keeps its value if nextTime <= 0.                   *)
(***************************************************************************)
C5_PauseAfterCloseAll ==
    (IsTick /\ ev.rule \in CloseEverything) =>
        state.pause_until = (IF cfg.next_time > 0 THEN ev.now + cfg.next_time
                             ELSE ev.st0.pause_until)

\* a close-all that moved pauseUntil to t + nextTime
C5_Witness ==
    /\ IsTick
    /\ ev.rule \in CloseEverything
    /\ cfg.next_time > 0
    /\ state.pause_until = ev.now + cfg.next_time
    /\ state.pause_until # ev.st0.pause_until

(***************************************************************************)
(* C6.  After any sequence of ticks and fills the order view holds at most *)
(* one buy-pending and at most one sell-pending order, and no tick sends a *)
(* pending order of a side that had one pending when the tick began.       *)
(***************************************************************************)
SendsOf(type) == SelectSeq(ev.calls, LAMBDA c : c.op = "send" /\ c.type = type)

C6_OnePendingPerSide ==
    /\ Len(OfType(Orders(orders), BUYSTOP)) <= 1
    /\ Len(OfType(Orders(orders), SELLSTOP)) <= 1
    /\ IsTick =>
        /\ Len(SendsOf(BUYSTOP)) <= 1
        /\ Len(SendsOf(SELLSTOP)) <= 1
        /\ PreView.buystops # << >> => SendsOf(BUYSTOP) = << >>
        /\ PreView.sellstops # << >> => SendsOf(SELLSTOP) = << >>

\* a buy-pending order was waiting on a tick free to open buys, and none was added
C6_Witness ==
    /\ IsTick
    /\ ev.rule = "none"
    /\ ev.gate
    /\ ev.can.buy
    /\ PreView.buystops # << >>
    /\ PreView.buys # << >>
    /\ PreView.buy_profit > cfg.max_loss
    /\ SendsOf(BUYSTOP) = << >>
    /\ Len(OfType(Orders(orders), BUYSTOP)) = 1

(***************************************************************************)
(* C7.  With no filled and no pending order on a side, the only pending    *)
(* order the engine sends for that side is at ask + firstStep for buy      *)
(* (bid - firstStep for sell) and tagged "NN", whatever the configuration  *)
(* and the other side.                                                     *)
(***************************************************************************)
C7_FirstOrder ==
    IsTick =>
        /\ (PreView.buys = << >> /\ PreView.buystops = << >>) =>
               \A i \in 1..Len(SendsOf(BUYSTOP)) :
                   /\ SendsOf(BUYSTOP)[i].price = ev.q.ask + cfg.first_step
                   /\ SendsOf(BUYSTOP)[i].comment = "NN"
        /\ (PreView.sells = << >> /\ PreView.sellstops = << >>) =>
               \A i \in 1..Len(SendsOf(SELLSTOP)) :
                   /\ SendsOf(SELLSTOP)[i].price = ev.q.bid - cfg.first_step
                   /\ SendsOf(SELLSTOP)[i].comment = "NN"

\* the first buy order went out while the sell side held a filled order
C7_Witness ==
    /\ IsTick
    /\ PreView.buys = << >>
    /\ PreView.buystops = << >>
    /\ PreView.sells # << >>
    /\ Len(SendsOf(BUYSTOP)) = 1
    /\ SendsOf(BUYSTOP)[1].ok
    /\ SendsOf(BUYSTOP)[1].price = ev.q.ask + cfg.first_step
    /\ SendsOf(BUYSTOP)[1].comment = "NN"
    /\ cfg.first_step # cfg.min_distance

(***************************************************************************)
(* The hysteresis partial close, read from the latest tick.                *)
(***************************************************************************)
HystOf(order_type) == IF order_type = BUY THEN ev.h.buy ELSE ev.h.sell

\* the calls the partial close of a side made
HystCalls(order_type) ==
    SubSeq(ev.calls, HystOf(order_type).first, HystOf(order_type).last)

ProfitOf(ticket) == FindOrder(ev.pre, ticket).profit

Losers(order_type) == {o \in Range(OfType(OwnOf(ev.pre), order_type)) : o.profit < 0}

Min2(n) == IF n < 2 THEN n ELSE 2

\* the k-th closed order is the worst of the side once the earlier ones are gone
WorstLeft(order_type, k) ==
    LET cs == HystCalls(order_type)
        gone == {cs[j].ticket : j \in 1..(k - 1)}
    IN  /\ ProfitOf(cs[k].ticket) < 0
        /\ \A o \in Range(OfType(OwnOf(ev.pre), order_type)) :
               o.ticket \notin gone => ProfitOf(cs[k].ticket) <= o.profit

\* the partial close of one side against a venue that accepts every close
ClosesBestThenWorst(order_type, losers) ==
    LET cs == HystCalls(order_type)
        side == OfType(OwnOf(ev.pre), order_type)
    IN  /\ Len(cs) = 1 + losers
        /\ \A k \in 1..Len(cs) : cs[k].op = "close" /\ cs[k].ok
        /\ \A o \in Range(side) : o.profit <= ProfitOf(cs[1].ticket)
        /\ \A k \in 2..Len(cs) : WorstLeft(order_type, k)
        /\ \A k \in 1..Len(cs) : cs[k].ticket \in TicketsOf(OwnOf(ev.pre), {order_type})
        /\ OfType(OwnOf(ev.post), order_type) =
               SelectSeq(side, LAMBDA o : \A k \in 1..Len(cs) : cs[k].ticket # o.ticket)

(***************************************************************************)
(* C8.  On a hysteresis trigger against a venue that accepts every close,  *)
(* the side's most profitable order is closed first and then its most      *)
(* losing orders, worst first and two at most: 1 + min(2, number of losing *)
(* orders) closes in all (4 buys at +50, -5, -5, -5: three closes, one buy *)
(* remains).                                                               *)
(***************************************************************************)
C8_BestThenTwoWorst ==
    (IsTick /\ ev.rej = 0) =>
        \A t \in {BUY, SELL} :
            HystOf(t).fired => ClosesBestThenWorst(t, Min2(Cardinality(Losers(t))))

\* C8 as stated: exactly two closes, the best order and the single worst one
C8_ExactlyTwoCloses ==
    (IsTick /\ ev.rej = 0) =>
        \A t \in {BUY, SELL} : HystOf(t).fired => ClosesBestThenWorst(t, 1)

\* four buys at +50, -5, -5, -5: three of them closed, one left
C8_Witness ==
    /\ IsTick
    /\ ev.rej = 0
    /\ ev.h.buy.fired
    /\ ProfitsOf(OfType(ev.pre, BUY)) = <<50, -5, -5, -5>>
    /\ Len(HystCalls(BUY)) = 3
    /\ Len(OfType(ev.post, BUY)) = 1

(***************************************************************************)
(* C9.  At the end of a tick on which a hysteresis partial close fired,    *)
(* peakBuyDominance is 0; peakSellDominance is 0 if the sell side fired,   *)
(* and otherwise the sell side's current score when that is positive (the  *)
(* sell side is scored after the buy side's reset).                        *)
(***************************************************************************)
HystFired == ev.h.buy.fired \/ ev.h.sell.fired

C9_PeaksAfterTrigger ==
    (IsTick /\ HystFired) =>
        /\ state.peak_buy_diff = 0
        /\ state.peak_sell_diff =
               (IF ev.h.sell.fired \/ ev.h.sell.diff < 0 THEN 0 ELSE ev.h.sell.diff)

\* C9 as stated: both peaks are 0 at the end of such a tick
C9_BothPeaksZero ==
    (IsTick /\ HystFired) => (state.peak_buy_diff = 0 /\ state.peak_sell_diff = 0)

\* the buy side fired and the tick ended with a positive sell peak
C9_Witness ==
    /\ IsTick
    /\ ev.h.buy.fired
    /\ ~ev.h.sell.fired
    /\ ev.st0.peak_sell_diff = 0
    /\ ev.h.sell.diff > 0
    /\ state.peak_buy_diff = 0
    /\ state.peak_sell_diff = ev.h.sell.diff

(***************************************************************************)
(* C10.  A side's hysteresis partial close fires exactly when, no closing  *)
(* rule having fired, the side's current score is positive, the side holds *)
(* more than 3 filled orders and its lots exceed 3 times the lots of its   *)
(* best order plus the other side's lots; the score need not be below the  *)
(* tracked peak, and the close also fires on a tick that sets a new peak.  *)
(***************************************************************************)
LotDominates(order_type) ==
    IF order_type = BUY
    THEN PreView.buy_lots > BestLot(PreView.buys) * 3 + PreView.sell_lots
    ELSE PreView.sell_lots > BestLot(PreView.sells) * 3 + PreView.buy_lots

C10_FiresOnPositiveScore ==
    IsTick =>
        \A t \in {BUY, SELL} :
            HystOf(t).fired <=>
                /\ ev.rule = "none"
                /\ cfg.close_buy_sell
                /\ Dominance(ev.pre, t) > 0
                /\ Len(OfType(OwnOf(ev.pre), t)) > 3
                /\ LotDominates(t)

\* C10 as stated: a side fires only with its score strictly below the tracked peak
C10_FiresOnlyBelowPeak ==
    IsTick => \A t \in {BUY, SELL} : HystOf(t).fired => HystOf(t).diff < HystOf(t).old

\* a side fired on the tick whose score set a new peak
C10_Witness ==
    /\ IsTick
    /\ ev.h.buy.fired
    /\ ev.h.buy.diff > ev.h.buy.old
    /\ ev.h.buy.old = ev.st0.peak_buy_diff

(***************************************************************************)
(* C11.  For every configuration and every n >= 0 the lot returned by      *)
(* _calc_lot(n), rounded to digits_lot decimals, is at most max_lot.       *)
(***************************************************************************)
C11_NeverAboveMaxLot == ev.kind = "lot" => ev.lots <= cfg.max_lot

(***************************************************************************)
(* C12.  For every configuration _calc_lot(0) is the configured lot: the   *)
(* first order of a side is sized exactly lot, neither capped nor rounded. *)
(***************************************************************************)
C12_FirstLotIsBaseLot == (ev.kind = "lot" /\ ev.n = 0) => ev.lots = cfg.lot

(***************************************************************************)
(* C13.  For every configuration with k_lot >= 1, plus_lot >= 0 and        *)
(* lot >= 0, the lot is non-decreasing in n: _calc_lot(n) is at most       *)
(* _calc_lot(n + 1) for all n >= 0.                                        *)
(***************************************************************************)
Growing == cfg.k_lot[1] >= cfg.k_lot[2] /\ cfg.plus_lot >= 0 /\ cfg.lot >= 0

C13_NonDecreasingWhenGrowing == (ev.kind = "lot" /\ Growing) => ev.lots <= ev.more

\* C13 as stated: non-decreasing for every configuration
C13_NonDecreasing == ev.kind = "lot" => ev.lots <= ev.more

\* a growing configuration past its first order: the next lot is larger
C13_Witness ==
    /\ ev.kind = "lot"
    /\ Growing
    /\ cfg.plus_lot > 0
    /\ ev.n >= 1
    /\ ev.lots < ev.more
    /\ ev.more <= cfg.max_lot

(***************************************************************************)
(* C14.  On a tick where the aggregate profit is at least close_all while  *)
(* the buy profit and the sell profit are each above max_loss_close_all,   *)
(* the mixed close-all does not fire; and when no other closing rule's     *)
(* condition holds either, the closing rules close nothing (lizong_7 is    *)
(* not run, no pause is set) and the tick goes on: both sides are scored   *)
(* by the hysteresis stage and the open gate is evaluated.                 *)
(***************************************************************************)
NoSideInDeepLoss(a) ==
    /\ a.total_profit >= cfg.close_all
    /\ a.buy_profit > cfg.max_loss_close_all
    /\ a.sell_profit > cfg.max_loss_close_all

NoOtherRule(a) ==
    /\ ~OverCondition(a)
    /\ ~BuyTakeProfitCondition(a)
    /\ ~SellTakeProfitCondition(a)
    /\ ~HomeopathyCondition(a)
    /\ ~StopLossCondition(a)

\* every close or delete of the latest tick was made by a partial close
ClosesAreHysteresis ==
    \A i \in 1..Len(ev.calls) :
        ev.calls[i].op \in {"close", "delete"} =>
            \E t \in {BUY, SELL} : i \in HystOf(t).first..HystOf(t).last

C14_NoMixedWithoutDeepLoss ==
    (IsTick /\ NoSideInDeepLoss(PreView)) =>
        /\ ev.rule # "mixed"
        /\ NoOtherRule(PreView) =>
            /\ ev.rule = "none"
            /\ ~ev.l7.ran
            /\ state.pause_until = ev.st0.pause_until
            /\ ClosesAreHysteresis
            /\ cfg.close_buy_sell =>
                   /\ ev.h.buy.diff = Dominance(ev.pre, BUY)
                   /\ ev.h.buy.fired =
                          HystFires(ev.st0, PreView, BUY, Dominance(ev.pre, BUY))
            /\ ev.gate = OpenGate(ev.st0, ev.bar)

\* the aggregate profit is there, no side is in deep loss and no rule fires: the
\* buy side is scored and closes partially, and a sell order is placed
C14_Witness ==
    /\ IsTick
    /\ NoSideInDeepLoss(PreView)
    /\ NoOtherRule(PreView)
    /\ ev.rule = "none"
    /\ ev.h.buy.fired
    /\ ev.gate
    /\ CallsOf({"send"}) # << >>

(***************************************************************************)
(* C15.  On a tick where the account leverage is below leverage_min, or    *)
(* trading is not allowed, or the expert is disabled, or the venue is      *)
(* stopped, or the filled buys and sells together number totals or more,   *)
(* or the spread in points is above max_spread, the engine places no       *)
(* pending order and reprices none, on either side.                        *)
(***************************************************************************)
FilledCount == Len(PreView.buys) + Len(PreView.sells)

FactsOff ==
    \/ ev.q.leverage < cfg.leverage_min
    \/ ~ev.q.trade_allowed
    \/ ~ev.q.expert_enabled
    \/ ev.q.stopped

GatingBlocked == FactsOff \/ FilledCount >= cfg.totals \/ ev.q.spread > cfg.max_spread

C15_BlockedOpensNothing == (IsTick /\ GatingBlocked) => NoOpening

\* the tick reached the opening stage with nothing else in the way of a buy order
\* at the price the engine would ask for
BuyWouldOpen ==
    /\ ev.rule = "none"
    /\ ev.gate
    /\ ev.now >= ev.st0.pause_until
    /\ ~cfg.over
    /\ PreView.buystops = << >>
    /\ PreView.buy_profit > cfg.max_loss
    /\ BuyCond(BuyPrice(ev.q.ask, PreView, TRUE), PreView, TRUE)

\* the spread alone is in the way of the next buy order, and nothing is sent
C15_Witness ==
    /\ IsTick
    /\ ev.q.spread > cfg.max_spread
    /\ ~FactsOff
    /\ FilledCount < cfg.totals
    /\ PreView.buys # << >>
    /\ BuyWouldOpen
    /\ ev.calls = << >>

(***************************************************************************)
(* C16.  After any sequence of ticks and fills of pending orders, the      *)
(* filled buy and sell orders of the engine together never number more     *)
(* than totals.                                                            *)
(***************************************************************************)
C16_FilledWithinTotals ==
    Len(OfType(Orders(orders), BUY)) + Len(OfType(Orders(orders), SELL)) <= cfg.totals

(***************************************************************************)
(* C17.  In over mode the engine never opens the first order of an empty   *)
(* side: on a tick with no filled buy order it places no buy stop and      *)
(* reprices none, and the same for the sell side on its own; so an over-   *)
(* mode engine that starts from an empty book never places any order.      *)
(***************************************************************************)
\* the sends and modifies of the latest tick on orders of the given pending type
OpeningCalls(type) ==
    SelectSeq(ev.calls,
              LAMBDA c : \/ c.op = "send" /\ c.type = type
                         \/ c.op = "modify" /\ c.ticket \in TicketsOf(ev.pre, {type}))

C17_OverNeverOpensEmptySide ==
    /\ (IsTick /\ cfg.over /\ PreView.buys = << >>) => OpeningCalls(BUYSTOP) = << >>
    /\ (IsTick /\ cfg.over /\ PreView.sells = << >>) => OpeningCalls(SELLSTOP) = << >>
    /\ (cfg.over /\ venue.seed = << >>) =>
           /\ orders = << >>
           /\ IsTick => ev.calls = << >>

\* over mode with a filled buy and no filled sell: the buy side adds an order while
\* the resting sell stop, which would be repriced otherwise, is left where it is
C17_Witness ==
    /\ IsTick
    /\ cfg.over
    /\ ev.rule = "none"
    /\ ev.gate
    /\ PreView.sells = << >>
    /\ PreView.buys # << >>
    /\ OpeningCalls(BUYSTOP) # << >>
    /\ OpeningCalls(SELLSTOP) = << >>

(***************************************************************************)
(* C18.  The engine closes, deletes and reprices only orders whose symbol  *)
(* and magic are its own: on every tick the orders of another instrument   *)
(* or owner in the venue's list are left as they were, and they count in   *)
(* no aggregate -- the rule that fires, the gating, the dominance scores   *)
(* and the lots and prices of the orders placed are those of the engine's  *)
(* own orders alone.                                                       *)
(***************************************************************************)
\* the aggregates of the engine's own orders at the top of the latest tick
OwnView == Aggregates(OwnOf(ev.pre))

OwnAggressive == cfg.money = 0 \/ OwnView.total_profit > cfg.money

C18_OnlyOwnOrders ==
    IsTick =>
        /\ \A i \in 1..Len(ev.calls) :
               ev.calls[i].op \in {"close", "delete", "modify"} =>
                   ev.calls[i].ticket \in {o.ticket : o \in Range(OwnOf(ev.pre))}
        /\ ForeignOf(ev.post) = ForeignOf(ev.pre)
        /\ ev.rule = FirstRule(OwnView)
        /\ ev.can = CanOpen(OwnView, ev.q, ev.st0, ev.now)
        /\ (ev.rule = "none" /\ cfg.close_buy_sell) =>
               /\ ev.h.buy.diff = Dominance(OwnOf(ev.pre), BUY)
               /\ ~ev.h.buy.fired => ev.h.sell.diff = Dominance(OwnOf(ev.pre), SELL)
        /\ \A i \in 1..Len(ev.calls) :
               ev.calls[i].op = "send" =>
                   IF ev.calls[i].type = BUYSTOP
                   THEN /\ ev.calls[i].lots = CalcLot(Len(OwnView.buys))
                        /\ ev.calls[i].price = BuyPrice(ev.q.ask, OwnView, OwnAggressive)
                   ELSE /\ ev.calls[i].lots = CalcLot(Len(OwnView.sells))
                        /\ ev.calls[i].price = SellPrice(ev.q.bid, OwnView, OwnAggressive)

\* a take-profit closes the engine's buy while a buy of another instrument, in
\* profit as well, a sell and a pending buy of another owner stay at the venue
C18_Witness ==
    /\ IsTick
    /\ ev.rule = "tp_buy"
    /\ ev.l7.ok
    /\ OwnOf(ev.pre) # << >>
    /\ OwnOf(ev.post) = << >>
    /\ Len(ForeignOf(ev.pre)) = 3
    /\ \E o \in Range(ForeignOf(ev.pre)) : o.type = BUY /\ o.profit > 0
    /\ ev.post = ForeignOf(ev.pre)

(***************************************************************************)
(* C19.  Time-window membership: with start <= stop a time of day t is     *)
(* inside iff start <= t <= stop, both ends included (09:00-17:00); with   *)
(* start > stop the window spans midnight and t is inside iff t >= start   *)
(* or t <= stop (22:00-06:00); a configured "24:00" stands for 23:59:59,   *)
(* so the default window 00:00-24:00 holds every second of the day.        *)
(***************************************************************************)
\* the second of the day a configured time names, "24:00" being 23:59:59
SecondOfDay(t) ==
    IF t = <<24, 0>> THEN 23 * 3600 + 59 * 60 + 59
    ELSE t[1] * 3600 + t[2] * 60 + (IF Len(t) = 3 THEN t[3] ELSE 0)

Inside(cur, start_s, stop_s) ==
    IF start_s <= stop_s THEN start_s <= cur /\ cur <= stop_s
    ELSE cur >= start_s \/ cur <= stop_s

C19_WindowMembership ==
    ev.kind = "window" =>
        /\ ev.inside = Inside(ev.t % 86400, SecondOfDay(ev.raw.ea_start_time),
                              SecondOfDay(ev.raw.ea_stop_time))
        /\ ev.raw.ea_stop_time = <<24, 0>> => cfg.ea_stop_time = <<23, 59, 59>>
        /\ (ev.raw.ea_start_time = <<0, 0>> /\ ev.raw.ea_stop_time = <<24, 0>>) => ev.inside

\* the last second of the day is inside the default window
C19_Witness ==
    /\ ev.kind = "window"
    /\ ev.raw.ea_start_time = <<0, 0>>
    /\ ev.raw.ea_stop_time = <<24, 0>>
    /\ ev.t % 86400 = 86399
    /\ ev.inside

(***************************************************************************)
(* C20.  Constructing a configuration makes max_loss, max_loss_close_all,  *)
(* stop_loss and money non-positive: a positive value is negated, a non-   *)
(* positive one is kept, and constructing again from the result changes    *)
(* nothing (stop_loss = 10 gives -10, stop_loss = -10 stays -10).          *)
(***************************************************************************)
Coerced(x) == IF x > 0 THEN 0 - x ELSE x

C20_LossThresholdsNonPositive ==
    ev.kind = "config" =>
        /\ cfg.max_loss = Coerced(ev.raw.max_loss)
        /\ cfg.max_loss_close_all = Coerced(ev.raw.max_loss_close_all)
        /\ cfg.stop_loss = Coerced(ev.raw.stop_loss)
        /\ cfg.money = Coerced(ev.raw.money)
        /\ cfg.max_loss <= 0 /\ cfg.max_loss_close_all <= 0
        /\ cfg.stop_loss <= 0 /\ cfg.money <= 0
        /\ PostInit(cfg) = cfg

\* stop_loss given as 10 and max_loss as -10: both are -10 after construction
C20_Witness ==
    /\ ev.kind = "config"
    /\ ev.raw.stop_loss = 10
    /\ cfg.stop_loss = -10
    /\ ev.raw.max_loss = -10
    /\ cfg.max_loss = -10
    /\ ev.raw.money = 10
    /\ cfg.money = -10

(***************************************************************************)
(* C21.  Constructing a configuration negates a positive money like the    *)
(* three loss thresholds: money given as 10 is -10 afterwards, so the      *)
(* aggressive mode of an engine given a positive money is on when the      *)
(* aggregate profit is above the negated target, or money is 0.            *)
(***************************************************************************)
C21_MoneyNegated ==
    /\ ev.kind = "config" =>
           cfg.money = (IF ev.raw.money > 0 THEN 0 - ev.raw.money ELSE ev.raw.money)
    /\ (ev.kind = "mode" /\ ev.raw.money > 0) =>
           /\ cfg.money = 0 - ev.raw.money
           /\ ev.aggressive = (ev.total > 0 - ev.raw.money)
    /\ (ev.kind = "mode" /\ ev.raw.money <= 0) =>
           ev.aggressive = (ev.raw.money = 0 \/ ev.total > ev.raw.money)

\* C21 as stated: a positive money keeps its value and is the target to exceed
C21_MoneyKept ==
    /\ ev.kind = "config" => cfg.money = ev.raw.money
    /\ ev.kind = "mode" =>
           ev.aggressive = (ev.raw.money = 0 \/ ev.total > ev.raw.money)

\* money given as 10: the mode is aggressive at an aggregate profit of -9, which is
\* above -10 and below 10
C21_Witness ==
    /\ ev.kind = "mode"
    /\ ev.raw.money = 10
    /\ cfg.money = -10
    /\ ev.total = -9
    /\ ev.aggressive

(***************************************************************************)
(* C22.  Opening a buy stop and opening a sell stop are mirror images: on  *)
(* the mirrored situation (buys and sells swapped, every price reflected,  *)
(* bid and ask swapped) _try_open_sell decides as _try_open_buy decides on *)
(* the original -- whether to place, how far from the market, which lots   *)
(* and which tag.                                                          *)
(***************************************************************************)
\* a price reflected about 20, beyond every price of the runs
Reflect(p) == 40 - p

MirrorType(t) ==
    IF t = BUY THEN SELL ELSE IF t = SELL THEN BUY
    ELSE IF t = BUYSTOP THEN SELLSTOP ELSE BUYSTOP

MirrorBook(book) ==
    [i \in 1..Len(book) |->
        [book[i] EXCEPT !.type = MirrorType(@), !.open_price = Reflect(@)]]

MirrorQuote(q) == [q EXCEPT !.ask = Reflect(q.bid), !.bid = Reflect(q.ask)]

\* a venue that accepts, holding the given list
Accepting(book) ==
    [orders |-> book, nextTicket |-> nextTicket, rej |-> 0, calls |-> << >>,
     sleeps |-> 0, l7 |-> NoL7, symbol |-> venue.symbol, bar |-> ev.bar, reads |-> 1,
     stuck |-> {}]

\* what a side decided: whether it placed, how far from the market, lots and tag
Decision(m, market) ==
    IF m.calls = << >> THEN [placed |-> FALSE]
    ELSE [placed |-> TRUE,
          distance |-> IF m.calls[1].price > market THEN m.calls[1].price - market
                       ELSE market - m.calls[1].price,
          lots |-> m.calls[1].lots, comment |-> m.calls[1].comment]

BuyDecision(book, q, a) ==
    Decision(TryOpenBuy(Accepting(book), ev.now, TRUE, q, a,
                        AggressiveMode(a.total_profit), LatestOpenTime(a.buys),
                        InTimeWindow(ev.now, cfg.limit_start_time, cfg.limit_stop_time)),
             q.ask)

SellDecision(book, q, a) ==
    Decision(TryOpenSell(Accepting(book), ev.now, TRUE, q, a,
                         AggressiveMode(a.total_profit), LatestOpenTime(a.sells),
                         InTimeWindow(ev.now, cfg.limit_start_time, cfg.limit_stop_time)),
             q.bid)

C22_MirrorOpening ==
    IsTick =>
        SellDecision(MirrorBook(ev.pre), MirrorQuote(ev.q),
                     Aggregates(MirrorBook(ev.pre)))
            = BuyDecision(ev.pre, ev.q, PreView)

(***************************************************************************)
(* C23.  A rejected placement is asked for again on the next tick when the *)
(* open gate is open on it.  If the venue rejects a pending-order          *)
(* placement on a tick, then on the next tick, with the venue facts, the   *)
(* order book and the membership of the trading and limit windows as they  *)
(* were, the engine sends the same placement again in the modes ALWAYS and *)
(* SLEEP, and in the mode BAR when the next tick belongs to a new bar; in  *)
(* the mode BAR a next tick of the same bar sends nothing, the rejected    *)
(* attempt having used up the bar.                                         *)
(***************************************************************************)
SameWindows ==
    /\ InTimeWindow(ev.now, cfg.ea_start_time, cfg.ea_stop_time)
           = InTimeWindow(ev.last.now, cfg.ea_start_time, cfg.ea_stop_time)
    /\ InTimeWindow(ev.now, cfg.limit_start_time, cfg.limit_stop_time)
           = InTimeWindow(ev.last.now, cfg.limit_start_time, cfg.limit_stop_time)

\* the latest tick follows a tick with a rejected placement, nothing having changed
AfterRejectedSend ==
    /\ IsTick
    /\ ev.last.kind = "tick"
    /\ ev.pre = ev.last.pre
    /\ ev.q = ev.last.q
    /\ SameWindows

\* the latest tick sends the placement c again
SentAgain(c) ==
    \E j \in 1..Len(ev.calls) :
        /\ ev.calls[j].op = "send"
        /\ ev.calls[j].type = c.type
        /\ ev.calls[j].lots = c.lots
        /\ ev.calls[j].price = c.price
        /\ ev.calls[j].comment = c.comment

SameBar == cfg.open_mode = BAR /\ ev.bar = ev.last.bar

C23_RetryWhenGateOpen ==
    AfterRejectedSend =>
        /\ ~SameBar =>
               \A i \in 1..Len(RejectedSends(ev.last.calls)) :
                   SentAgain(RejectedSends(ev.last.calls)[i])
        /\ SameBar => CallsOf({"send"}) = << >>

\* C23 as stated: the placement is sent again in every mode, in the same bar or not
C23_RetryNextTick ==
    AfterRejectedSend =>
        \A i \in 1..Len(RejectedSends(ev.last.calls)) :
            SentAgain(RejectedSends(ev.last.calls)[i])

\* once per bar: the placement rejected in one bar is sent again in the next bar
C23_Witness ==
    /\ AfterRejectedSend
    /\ cfg.open_mode = BAR
    /\ ev.bar # ev.last.bar
    /\ ev.now > ev.last.now
    /\ SentAgain(RejectedSends(ev.last.calls)[1])

(***************************************************************************)
(* C24.  One snapshot a tick.  The engine asks the venue for its order     *)
(* list once, at the top of the tick, and no later step of the tick        *)
(* (hysteresis scoring, partial close, liquidation, opening, trailing)     *)
(* asks for it again.                                                      *)
(***************************************************************************)
C24_ReadsOnce == IsTick => ev.reads = 1

(***************************************************************************)
(* C25.  on_tick is deterministic.  A second engine with the configuration *)
(* and the engine state the tick started from, given the timestamps, the   *)
(* venue facts, the venue's answers and the order snapshot of the tick,    *)
(* issues the same sequence of venue calls with the same arguments, leaves *)
(* the same order book and ends the tick in the same engine state.         *)
(***************************************************************************)
\* the tick of a second engine on the inputs of the latest tick
TwinTick ==
    OnTick([orders |-> ev.pre, nextTicket |-> ev.tickets, rej |-> ev.rej,
            calls |-> << >>, sleeps |-> 0, l7 |-> NoL7, symbol |-> venue.symbol,
            bar |-> ev.bar, reads |-> 1, stuck |-> venue.stuck],
           ev.st0, ev.now, ev.bar, ev.q)

ClosedSideOnly(types) ==
    /\ OnlyTouches(types)
    /\ \A i \in 1..Len(ev.calls) : ev.calls[i].op \in {"close", "delete"}
    /\ \A t \in TicketsOf(OwnOf(ev.pre), types) :
           \E i \in 1..Len(ev.calls) : ev.calls[i].ticket = t
    /\ SideOf(ev.post, (BuySide \cup SellSide) \ types)
           = SideOf(ev.pre, (BuySide \cup SellSide) \ types)
    /\ state.pause_until = ev.st0.pause_until
    /\ state = ev.st0
    /\ ~ev.gate
    /\ ~HystFired

C26_TakeProfitOneSide ==
    IsTick =>
        /\ BuyTakeProfitCondition(PreView) =>
               ev.rule = "tp_buy" /\ ClosedSideOnly(BuySide)
        /\ (SellTakeProfitCondition(PreView) /\ ~BuyTakeProfitCondition(PreView)) =>
               ev.rule = "tp_sell" /\ ClosedSideOnly(SellSide)
        /\ ev.rule = "tp_sell" => ~BuyTakeProfitCondition(PreView)
        /\ ev.rule = "tp_buy" => BuyTakeProfitCondition(PreView)

\* both sides above their targets, a pause configured: the buys go, the sells stay
C26_Witness ==
    /\ IsTick
    /\ BuyTakeProfitCondition(PreView)
    /\ SellTakeProfitCondition(PreView)
    /\ cfg.next_time > 0
    /\ ev.calls # << >>
    /\ SideOf(ev.post, BuySide) = << >>
    /\ SideOf(ev.post, SellSide) # << >>
    /\ state.pause_until = 0

(***************************************************************************)
(* C27.  The price of a further buy.  When the side has filled buys, the   *)
(* base candidate is ask + min_distance (two_min_distance in conservative  *)
(* mode).  A base candidate more than step (two_step) below the lowest     *)
(* filled buy is replaced by ask + step; any other base candidate is kept  *)
(* as it is.  Every buy stop placed beside filled buys carries that price. *)
(***************************************************************************)
BaseInForce == IF OwnAggressive THEN cfg.min_distance ELSE cfg.two_min_distance
StepInForce == IF OwnAggressive THEN cfg.step ELSE cfg.two_step

\* the buy stops the latest tick asked for beside filled buys
FurtherBuys ==
    SelectSeq(ev.calls, LAMBDA c : c.op = "send" /\ c.type = BUYSTOP
                                   /\ Len(OwnView.buys) > 0)

C27_FarCandidateTakesStep ==
    IsTick =>
        \A i \in 1..Len(FurtherBuys) :
            FurtherBuys[i].price =
                IF ev.q.ask + BaseInForce < OwnView.buy_low - StepInForce
                THEN ev.q.ask + StepInForce
                ELSE ev.q.ask + BaseInForce

\* C27 as stated: a base candidate closer than step below the lowest buy is moved to
\* the lowest buy less step
C27_PushedToGridLine ==
    IsTick =>
        \A i \in 1..Len(FurtherBuys) :
            ev.q.ask + BaseInForce > OwnView.buy_low - StepInForce =>
                FurtherBuys[i].price = OwnView.buy_low - StepInForce

\* conservative mode, the base candidate far below the lowest buy: ask + two_step
C27_Witness ==
    /\ IsTick
    /\ FurtherBuys # << >>
    /\ ~OwnAggressive
    /\ cfg.two_step # cfg.two_min_distance
    /\ ev.q.ask + cfg.two_min_distance < OwnView.buy_low - cfg.two_step
    /\ FurtherBuys[1].price = ev.q.ask + cfg.two_step

(***************************************************************************)
(* C28.  The lots test of the hysteresis partial close.  A side fires only *)
(* when its total lots exceed 3 times the lots of its most profitable      *)
(* order (the first of them in the venue's list when several share the     *)
(* best profit) plus the other side's total lots, together with a positive *)
(* score, positive lots and more than 3 filled orders on the side.  The    *)
(* most profitable order need not be the largest one.                      *)
(***************************************************************************)
FilledOf(order_type) == OfType(OwnOf(ev.pre), order_type)

SideLots(side) == SumSeq([i \in 1..Len(side) |-> side[i].lots])

LargestLots(side) == MaxOf({side[i].lots : i \in 1..Len(side)}, 0)

\* the lots of the first order of the side that floats the side's highest profit
MostProfitableLots(side) ==
    LET top == MaxOf({side[i].profit : i \in 1..Len(side)}, 0)
        firsts == {i \in 1..Len(side) :
                      side[i].profit = top /\ \A j \in 1..(i - 1) : side[j].profit # top}
    IN  IF firsts = {} THEN 0 ELSE side[CHOOSE i \in firsts : TRUE].lots

Opposite(order_type) == IF order_type = BUY THEN SELL ELSE BUY

C28_LotsAboveBestOrder ==
    IsTick =>
        \A t \in {BUY, SELL} :
            HystOf(t).fired =>
                /\ SideLots(FilledOf(t)) >
                       3 * MostProfitableLots(FilledOf(t)) + SideLots(FilledOf(Opposite(t)))
                /\ HystOf(t).diff > 0
                /\ SideLots(FilledOf(t)) > 0
                /\ Len(FilledOf(t)) > 3

\* C28 as stated: the side's lots exceed 3 times the lots of its largest order plus
\* the other side's lots
C28_LotsAboveLargestOrder ==
    IsTick =>
        \A t \in {BUY, SELL} :
            HystOf(t).fired =>
                SideLots(FilledOf(t)) >
                    3 * LargestLots(FilledOf(t)) + SideLots(FilledOf(Opposite(t)))

\* the buy side fires, its most profitable order a small one beside a larger one
C28_Witness ==
    /\ IsTick
    /\ ev.h.buy.fired
    /\ MostProfitableLots(FilledOf(BUY)) < LargestLots(FilledOf(BUY))
    /\ SideLots(FilledOf(BUY)) <= 3 * LargestLots(FilledOf(BUY)) + SideLots(FilledOf(SELL))
    /\ CallsOf({"close"}) # << >>

(***************************************************************************)
(* C29.  The tag of a placement.  Every pending order the engine places is *)
(* tagged "SS" or "NN".  A buy stop is tagged "SS" exactly when its price  *)
(* is at or above the highest filled buy plus the step in force while the  *)
(* sell lots exceed 3 times the buy lots and exceed them by more than 0.2  *)
(* lots (countertrend), or when homeopathy is on, its price is at or above *)
(* the highest filled buy plus step and the lots of the two sides are      *)
(* equal; a first order of a side and a grid continuation (price at or     *)
(* below the lowest filled buy less the step in force) are tagged "NN".    *)
(* A sell stop is tagged the same way, the directions reversed.            *)
(***************************************************************************)
SendsOfType(type) == SelectSeq(ev.calls, LAMBDA c : c.op = "send" /\ c.type = type)

BuyCountertrend(px) ==
    /\ OwnView.buy_high > 0
    /\ px >= OwnView.buy_high + StepInForce
    /\ OwnView.sell_lots > 3 * OwnView.buy_lots
    /\ 5 * (OwnView.sell_lots - OwnView.buy_lots) > LotScale

BuyHomeopathy(px) ==
    /\ cfg.homeopathy
    /\ OwnView.buy_high > 0
    /\ px >= OwnView.buy_high + cfg.step
    /\ OwnView.buy_lots = OwnView.sell_lots

SellCountertrend(px) ==
    /\ OwnView.sell_low > 0
    /\ px <= OwnView.sell_low - StepInForce
    /\ OwnView.buy_lots > 3 * OwnView.sell_lots
    /\ 5 * (OwnView.buy_lots - OwnView.sell_lots) > LotScale

SellHomeopathy(px) ==
    /\ cfg.homeopathy
    /\ OwnView.sell_low > 0
    /\ px <= OwnView.sell_low - cfg.step
    /\ OwnView.buy_lots = OwnView.sell_lots

C29_TagOfPlacement ==
    IsTick =>
        /\ \A i \in 1..Len(CallsOf({"send"})) : CallsOf({"send"})[i].comment \in {"SS", "NN"}
        /\ \A i \in 1..Len(SendsOfType(BUYSTOP)) :
               \A c \in {SendsOfType(BUYSTOP)[i]} :
                   /\ c.comment = "SS" <=> (BuyCountertrend(c.price) \/ BuyHomeopathy(c.price))
                   /\ Len(OwnView.buys) = 0 => c.comment = "NN"
                   /\ c.price <= OwnView.buy_low - StepInForce => c.comment = "NN"
        /\ \A i \in 1..Len(SendsOfType(SELLSTOP)) :
               \A c \in {SendsOfType(SELLSTOP)[i]} :
                   /\ c.comment = "SS" <=> (SellCountertrend(c.price) \/ SellHomeopathy(c.price))
                   /\ Len(OwnView.sells) = 0 => c.comment = "NN"
                   /\ c.price >= OwnView.sell_high + StepInForce => c.comment = "NN"

\* a buy stop placed against three times its side's lots and more, tagged "SS"
C29_Witness ==
    /\ IsTick
    /\ SendsOfType(BUYSTOP) # << >>
    /\ SendsOfType(BUYSTOP)[1].comment = "SS"
    /\ BuyCountertrend(SendsOfType(BUYSTOP)[1].price)
    /\ ~cfg.homeopathy

(***************************************************************************)
(* C30.  The margin guard.  With check_margin_for_add_orders on, a further *)
(* order of a side is given up exactly when the margin of twice its lots   *)
(* exceeds the free margin; with that margin equal to the free margin the  *)
(* order is still placed, and the first order of a side is placed whatever *)
(* the free margin.  Stated for a buy order nothing else is in the way of. *)
(***************************************************************************)
\* the margin of twice the lots of the next buy order, and the free margin, both
\* times LotScale
MarginOfTwice == 2 * CalcLot(Len(OwnView.buys)) * ev.q.margin_per_lot
FreeMargin == ev.q.free_margin * LotScale

C30_AbortsOnlyAboveFreeMargin ==
    ( /\ IsTick
      /\ cfg.check_margin_for_add_orders
      /\ ev.q.margin_per_lot > 0
      /\ BuyWouldOpen
      /\ ev.can.buy ) =>
        (SendsOfType(BUYSTOP) = << >>
            <=> (Len(OwnView.buys) > 0 /\ MarginOfTwice > FreeMargin))

(***************************************************************************)
(* C31.  Trailing.  On a tick that reaches the trailing stage, a resting   *)
(* buy stop is repriced exactly when can_buy holds, its price less         *)
(* step_trail_orders is above the candidate (ask + first_step with no      *)
(* filled buy, else ask + the distance in force), and either there is no   *)
(* filled buy, or the candidate is at or below the lowest filled buy less  *)
(* the step in force, or at or above the highest filled buy plus that      *)
(* step.  The new price is the candidate, and a side is repriced once a    *)
(* tick at most.  Sell stops the same way, the directions reversed.        *)
(***************************************************************************)
BuyCandidate ==
    ev.q.ask + (IF Len(OwnView.buys) = 0 THEN cfg.first_step ELSE BaseInForce)

SellCandidate ==
    ev.q.bid - (IF Len(OwnView.sells) = 0 THEN cfg.first_step ELSE BaseInForce)

HighestFilled(side) == MaxOf({side[i].open_price : i \in 1..Len(side)}, 0)
LowestFilled(side) == MinOf({side[i].open_price : i \in 1..Len(side)}, 0)

\* the reprices the latest tick asked for on resting orders of a pending type
Reprices(type) ==
    SelectSeq(ev.calls, LAMBDA c : c.op = "modify"
                                   /\ c.ticket \in TicketsOf(OwnOf(ev.pre), {type}))

BuyTrailCondition(o) ==
    /\ ev.can.buy
    /\ o.open_price - cfg.step_trail_orders > BuyCandidate
    /\ \/ Len(OwnView.buys) = 0
       \/ BuyCandidate <= LowestFilled(OwnView.buys) - StepInForce
       \/ BuyCandidate >= HighestFilled(OwnView.buys) + StepInForce

SellTrailCondition(o) ==
    /\ ev.can.sell
    /\ o.open_price + cfg.step_trail_orders < SellCandidate
    /\ \/ Len(OwnView.sells) = 0
       \/ SellCandidate >= HighestFilled(OwnView.sells) + StepInForce
       \/ SellCandidate <= LowestFilled(OwnView.sells) - StepInForce

C31_TrailsExactlyWhen ==
    (IsTick /\ ev.rule = "none") =>
        /\ \A i \in 1..Len(OwnView.buystops) :
               \A o \in {OwnView.buystops[i]} :
                   (\E j \in 1..Len(Reprices(BUYSTOP)) :
                        Reprices(BUYSTOP)[j].ticket = o.ticket) <=> BuyTrailCondition(o)
        /\ \A i \in 1..Len(OwnView.sellstops) :
               \A o \in {OwnView.sellstops[i]} :
                   (\E j \in 1..Len(Reprices(SELLSTOP)) :
                        Reprices(SELLSTOP)[j].ticket = o.ticket) <=> SellTrailCondition(o)
        /\ \A j \in 1..Len(Reprices(BUYSTOP)) : Reprices(BUYSTOP)[j].price = BuyCandidate
        /\ \A j \in 1..Len(Reprices(SELLSTOP)) : Reprices(SELLSTOP)[j].price = SellCandidate
        /\ Len(Reprices(BUYSTOP)) <= 1
        /\ Len(Reprices(SELLSTOP)) <= 1

(***************************************************************************)
(* C32.  Once per bar.  In the mode BAR, after a tick that reached the     *)
(* opening stage in the bar b, whether it placed an order or not, no tick  *)
(* that follows in the bar b reaches the opening stage or places a pending *)
(* order.  In the modes SLEEP and ALWAYS every tick that no closing rule   *)
(* ends reaches the opening stage.                                         *)
(***************************************************************************)
C32_OncePerBar ==
    IsTick =>
        /\ (cfg.open_mode = BAR /\ ev.opened0 = ev.bar) =>
               ~ev.gate /\ CallsOf({"send"}) = << >>
        /\ (cfg.open_mode \in {SLEEP, ALWAYS} /\ ev.rule = "none") => ev.gate

\* the bar was used by a tick that placed nothing; nothing rests on the buy side, the
\* gating lets the side open, and still the tick sends nothing
C32_Witness ==
    /\ IsTick
    /\ cfg.open_mode = BAR
    /\ ev.opened0 = ev.bar
    /\ ev.rule = "none"
    /\ ev.can.buy
    /\ OwnView.buys = << >>
    /\ OwnView.buystops = << >>
    /\ CallsOf({"send"}) = << >>

(***************************************************************************)
(* C33.  Tickets of the simulated venue.  After any sequence of            *)
(* placements, reprices, closes, deletions and fills no two orders of the  *)
(* book share a ticket; every order placed gets a ticket above every       *)
(* ticket issued before it, those of orders closed or deleted since        *)
(* included, so that no ticket is used twice.                              *)
(***************************************************************************)
\* the placements of the latest tick that the venue accepted
Placed == SelectSeq(ev.calls, LAMBDA c : c.op = "send" /\ c.ok)

C33_TicketsUnique ==
    /\ \A i, j \in 1..Len(orders) : orders[i].ticket = orders[j].ticket => i = j
    /\ \A i \in 1..Len(orders) : orders[i].ticket < nextTicket
    /\ IsTick =>
           /\ ev.tickets <= nextTicket
           /\ \A i \in 1..Len(ev.pre) : ev.pre[i].ticket < ev.tickets
           /\ \A i \in 1..Len(Placed) :
                  /\ Placed[i].ticket >= ev.tickets
                  /\ Placed[i].ticket < nextTicket
                  /\ \A j \in 1..(i - 1) : Placed[j].ticket < Placed[i].ticket
                  /\ \E k \in 1..Len(ev.post) : ev.post[k].ticket = Placed[i].ticket

\* an order closed and an order placed on one tick, the new ticket above the closed
C33_Witness ==
    /\ IsTick
    /\ Placed # << >>
    /\ \E i \in 1..Len(ev.calls) :
           /\ ev.calls[i].op = "close"
           /\ ev.calls[i].ok
           /\ ev.calls[i].ticket < Placed[1].ticket
           /\ \A k \in 1..Len(orders) : orders[k].ticket # ev.calls[i].ticket

(***************************************************************************)
(* C34.  A liquidation that fails is not undone.  When a rule that closes  *)
(* everything fires and lizong_7 gives up after 10 rounds with an order    *)
(* still outstanding, the orders it closed stay closed, the others are     *)
(* left as they were, pause_until is set to now + next_time all the same   *)
(* when next_time > 0, nothing else of the engine state changes, and the   *)
(* tick returns without hysteresis, opening or trailing.                   *)
(***************************************************************************)
\* the tickets the venue closed or deleted on the latest tick
ClosedTickets ==
    {ev.calls[i].ticket : i \in {k \in 1..Len(ev.calls) :
                                    ev.calls[k].op \in {"close", "delete"} /\ ev.calls[k].ok}}

LiquidationFailed == IsTick /\ ev.rule \in CloseEverything /\ ev.l7.ran /\ ~ev.l7.ok

C34_NoRollback ==
    LiquidationFailed =>
        /\ ev.post = SelectSeq(ev.pre, LAMBDA o : o.ticket \notin ClosedTickets)
        /\ \A i \in 1..Len(orders) : orders[i].ticket \notin ClosedTickets
        /\ OwnOf(ev.post) # << >>
        /\ state = [ev.st0 EXCEPT !.pause_until =
                       IF cfg.next_time > 0 THEN ev.now + cfg.next_time ELSE @]
        /\ \A i \in 1..Len(ev.calls) : ev.calls[i].op \in {"close", "delete"}
        /\ ~ev.gate
        /\ ~HystFired

\* one order closed, the other refused through ten rounds, the pause set all the same
C34_Witness ==
    /\ LiquidationFailed
    /\ ClosedTickets # {}
    /\ ev.l7.rounds = 10
    /\ cfg.next_time > 0
    /\ state.pause_until = ev.now + cfg.next_time
    /\ Len(ev.post) < Len(ev.pre)

(***************************************************************************)
(* C35.  The stored peaks decide nothing.  Two engines whose states differ *)
(* only in peak_buy_diff and peak_sell_diff, both non-negative, given the  *)
(* same inputs, issue the same venue calls and end the tick with the same  *)
(* pause_until and last_bar_time: the peak a side tests is the larger of   *)
(* the stored peak and the score, so it is positive whenever the score is. *)
(***************************************************************************)
\* stored peaks to start the second engine from: none, a small one, one above every
\* score of the runs
PeakValues == {0, 3, 1000}

\* the tick of a second engine that differs from the first in its stored peaks only
TickWithPeaks(pb, ps) ==
    OnTick([orders |-> ev.pre, nextTicket |-> ev.tickets, rej |-> ev.rej,
            calls |-> << >>, sleeps |-> 0, l7 |-> NoL7, symbol |-> venue.symbol,
            bar |-> ev.bar, reads |-> 1, stuck |-> venue.stuck],
           [ev.st0 EXCEPT !.peak_buy_diff = pb, !.peak_sell_diff = ps],
           ev.now, ev.bar, ev.q)

C35_PeaksDecideNothing ==
    IsTick =>
        \A pb \in PeakValues, ps \in PeakValues :
            \A other \in {TickWithPeaks(pb, ps)} :
                /\ other.m.calls = ev.calls
                /\ other.m.orders = ev.post
                /\ other.st.pause_until = state.pause_until
                /\ other.st.last_bar_time = state.last_bar_time

\* a partial close fired from stored peaks of 0; it fires the same from peaks far
\* above the score
C35_Witness ==
    /\ IsTick
    /\ ev.h.buy.fired
    /\ ev.st0.peak_buy_diff = 0
    /\ ev.h.buy.diff < 1000
    /\ CallsOf({"close"}) # << >>
    /\ TickWithPeaks(1000, 1000).m.calls = ev.calls

(***************************************************************************)
(* C36.  The closing rules are not subject to gating.  On a tick outside   *)
(* the trading window, during a pause, with trading disabled or with the   *)
(* spread above max_spread, the first closing rule whose condition holds   *)
(* fires all the same and asks the venue to close every order of the engine*)
(* on the side it targets, and a rule that closes everything, firing       *)
(* during a pause, moves pause_until to now + next_time again.             *)
(***************************************************************************)
OutsideWindow == ~InTimeWindow(ev.now, cfg.ea_start_time, cfg.ea_stop_time)

Paused == ev.now < ev.st0.pause_until

SpreadTooWide == ev.q.spread > cfg.max_spread

\* the types of order the rule is after
RuleTypes(rule) ==
    IF rule = "tp_buy" THEN BuySide ELSE IF rule = "tp_sell" THEN SellSide
    ELSE BuySide \cup SellSide

\* every order of the engine the rule is after was put to the venue for closing
AskedToClose(rule) ==
    \A t \in TicketsOf(OwnOf(ev.pre), RuleTypes(rule)) :
        \E i \in 1..Len(ev.calls) :
            ev.calls[i].op \in {"close", "delete"} /\ ev.calls[i].ticket = t

C36_ClosingNotGated ==
    (IsTick /\ (OutsideWindow \/ Paused \/ FactsOff \/ SpreadTooWide)) =>
        /\ ev.rule = FirstRule(OwnView)
        /\ ev.rule # "none" => AskedToClose(ev.rule) /\ ev.l7.ran
        /\ (ev.rule \in CloseEverything /\ cfg.next_time > 0) =>
               state.pause_until = ev.now + cfg.next_time

\* a rule closing everything fires again during the pause it set and moves the pause on
C36_Witness ==
    /\ IsTick
    /\ Paused
    /\ ev.rule \in CloseEverything
    /\ CallsOf({"close", "delete"}) # << >>
    /\ cfg.next_time > 0
    /\ state.pause_until = ev.now + cfg.next_time
    /\ state.pause_until > ev.st0.pause_until

(***************************************************************************)
(* C37.  At most one side's partial close fires on a tick.  The buy        *)
(* trigger asks for buy lots > 3 x best buy lots + sell lots, the sell     *)
(* trigger for sell lots > 3 x best sell lots + buy lots, both on the      *)
(* aggregates read at the top of the tick; lots are never negative, so the *)
(* two cannot hold together.                                               *)
(***************************************************************************)
\* the side has more than three filled orders and a positive score on this tick
HystReady(order_type) ==
    /\ Len(OfType(OwnOf(ev.pre), order_type)) > 3
    /\ HystOf(order_type).diff > 0

\* the lot test of a side, on the engine's own orders as the tick found them
OwnLotTest(order_type) ==
    IF order_type = BUY
    THEN OwnView.buy_lots > BestLot(OwnView.buys) * 3 + OwnView.sell_lots
    ELSE OwnView.sell_lots > BestLot(OwnView.sells) * 3 + OwnView.buy_lots

C37_OneSideFires ==
    IsTick =>
        /\ ~(ev.h.buy.fired /\ ev.h.sell.fired)
        /\ ~(OwnLotTest(BUY) /\ OwnLotTest(SELL))
        /\ \A i \in 1..Len(ev.pre) : ev.pre[i].lots >= 0

\* both sides ready to fire, the buys the heavier: the buy side fires, the sells stay
C37_Witness ==
    /\ IsTick
    /\ HystReady(BUY)
    /\ HystReady(SELL)
    /\ ev.h.buy.fired
    /\ ~ev.h.sell.fired
    /\ HystCalls(BUY) # << >>
    /\ OwnView.sell_lots > BestLot(OwnView.sells) * 3

(***************************************************************************)
(* C38.  A partial close never closes an order of the wrong sign.  On a    *)
(* trigger the best leg asks the venue to close one order, of profit > 0;  *)
(* the worst leg asks only for orders of profit < 0 and asks for nothing   *)
(* when the side has no losing order; a leg ends at its first rejected     *)
(* close, so the best leg makes one call at most and the worst leg two.    *)
(***************************************************************************)
\* the closes the worst leg asks for: none without a losing order, one when the
\* first is rejected, else two or as many as there are losing orders
WorstLegCalls(order_type) ==
    IF Losers(order_type) = {} THEN 0
    ELSE IF ~HystCalls(order_type)[2].ok THEN 1
    ELSE Min2(Cardinality(Losers(order_type)))

C38_LegsCloseTheirSign ==
    IsTick =>
        \A t \in {BUY, SELL} :
            HystOf(t).fired =>
                /\ HystCalls(t) # << >>
                /\ \A k \in 1..Len(HystCalls(t)) :
                       /\ HystCalls(t)[k].op = "close"
                       /\ HystCalls(t)[k].ticket \in TicketsOf(OwnOf(ev.pre), {t})
                /\ ProfitOf(HystCalls(t)[1].ticket) > 0
                /\ \A k \in 2..Len(HystCalls(t)) : ProfitOf(HystCalls(t)[k].ticket) < 0
                /\ Len(HystCalls(t)) = 1 + WorstLegCalls(t)
                /\ \A o \in Range(OfType(OwnOf(ev.pre), t)) :
                       (\A k \in 1..Len(HystCalls(t)) : HystCalls(t)[k].ticket # o.ticket)
                           => o \in Range(ev.post)

\* the venue rejects the close of the best order and the close of the worst: each leg
\* ends there, though two losing orders were to go
C38_Witness ==
    /\ IsTick
    /\ ev.h.buy.fired
    /\ Cardinality(Losers(BUY)) >= 2
    /\ Len(HystCalls(BUY)) = 2
    /\ ~HystCalls(BUY)[1].ok
    /\ ~HystCalls(BUY)[2].ok
    /\ ProfitOf(HystCalls(BUY)[1].ticket) > 0
    /\ ProfitOf(HystCalls(BUY)[2].ticket) < 0

(***************************************************************************)
(* C39.  Trailing only pulls a pending order toward the market.  Every     *)
(* reprice is of a pending order of the engine that rested at the venue    *)
(* when the tick began; a buy stop is repriced to less than its price      *)
(* minus step_trail_orders, a sell stop to more than its price plus        *)
(* step_trail_orders, and the order rests at the new price when the venue  *)
(* accepts.                                                                *)
(***************************************************************************)
\* the calls of the latest tick that asked for a new price
AllReprices == CallsOf({"modify"})

PriceOf(book, ticket) == FindOrder(book, ticket).open_price

C39_TrailsTowardMarket ==
    (IsTick /\ cfg.step_trail_orders >= 0) =>
        /\ \A j \in 1..Len(AllReprices) :
               \A c \in {AllReprices[j]} :
                   /\ c.ticket \in TicketsOf(OwnOf(ev.pre), {BUYSTOP, SELLSTOP})
                   /\ c.ticket \in TicketsOf(ev.pre, {BUYSTOP}) =>
                          /\ c.price < PriceOf(ev.pre, c.ticket) - cfg.step_trail_orders
                          /\ c.price >= ev.q.ask
                   /\ c.ticket \in TicketsOf(ev.pre, {SELLSTOP}) =>
                          /\ c.price > PriceOf(ev.pre, c.ticket) + cfg.step_trail_orders
                          /\ c.price <= ev.q.bid
                   /\ c.ok => PriceOf(ev.post, c.ticket) = c.price
                   /\ ~c.ok => PriceOf(ev.post, c.ticket) = PriceOf(ev.pre, c.ticket)

\* with step_trail_orders = 2, a buy stop pulled down by more than two points
C39_Witness ==
    /\ IsTick
    /\ cfg.step_trail_orders > 0
    /\ \E j \in 1..Len(AllReprices) :
           /\ AllReprices[j].ok
           /\ AllReprices[j].ticket \in TicketsOf(ev.pre, {BUYSTOP})
           /\ AllReprices[j].price
                  < PriceOf(ev.pre, AllReprices[j].ticket) - cfg.step_trail_orders
           /\ PriceOf(ev.post, AllReprices[j].ticket) = AllReprices[j].price

(***************************************************************************)
(* C40.  pause_until never decreases.  From one state of a run to the next *)
(* pause_until keeps its value or grows; it changes only on a tick on      *)
(* which a rule that closes everything fires with next_time > 0, and then  *)
(* to now + next_time; a take-profit, a partial close, opening, trailing   *)
(* and the filling of a pending order leave it as it was.                  *)
(***************************************************************************)
PauseStep ==
    /\ state'.pause_until >= state.pause_until
    /\ now' >= now
    /\ state'.pause_until # state.pause_until =>
           /\ ev'.kind = "tick"
           /\ ev'.rule \in CloseEverything
           /\ cfg.next_time > 0
           /\ state'.pause_until = now' + cfg.next_time
    /\ (ev'.kind = "tick" /\ ev'.rule \notin CloseEverything) =>
           state'.pause_until = state.pause_until

C40_PauseNeverDecreases == [][PauseStep]_vars

\* a pause set earlier in the run outlives a tick that traded without closing everything
C40_Witness ==
    /\ IsTick
    /\ ev.st0.pause_until > 0
    /\ ev.rule \notin CloseEverything
    /\ ev.calls # << >>
    /\ state.pause_until = ev.st0.pause_until

====
